---- MODULE Spec2Model ----
(***************************************************************************)
(* Model of the boost aggregation and threshold-triggered dispatch engine  *)
(* of blinkyboosts: SatTracker (src/sat_tracker.rs), the toggle policy and *)
(* the listener tasks (src/main.rs) and the producers' cursors             *)
(* (src/boostboard.rs, src/nwc.rs, src/zaps.rs).                           *)
(***************************************************************************)
EXTENDS Integers, Sequences, FiniteSets, TLC

(***************************************************************************)
(* Bounds of the model.                                                    *)
(***************************************************************************)
\* largest number of events one producer publishes
MaxEvents == 2
\* last value of the wall clock
MaxTime == 2
\* number of live boosts one source delivers in the live-phase specification
MaxLive == 2
\* number of boosts of the sequential specification
MaxSeq == 4
\* number of boosts of the toggle-policy specification
MaxTog == 3
\* number of direct add calls of the tracker specification
MaxAdds == 3
\* number of listener tasks ever spawned in the supervisor specification
MaxTasks == 3
\* number of commands the control loop receives in the supervisor specification
MaxCmds == 2
\* capacity of the two mpsc channels (channel(100) in the program)
ChanCap == 2
\* length of the podcast names of the filter specification
MaxStr == 2

Sources == {"Zaps", "Boostboard", "NWC"}

\* the two callers of start_listener and stop_listener
Callers == {"startup", "control"}
\* the listener tasks that can be spawned
Tasks == 1..MaxTasks

\* Option::None of a timestamp and of an endswith_range
NoTime == 0 - 1
NoRange == << >>

(***************************************************************************)
(* Toggle configurations (config::Toggle).  endswith_range is NoRange or a    *)
(* pair <<start, end>>.                                                    *)
(***************************************************************************)
Toggle(th, def, ut, mult, rng) ==
    [threshold |-> th, is_default |-> def, use_total |-> ut,
     trigger_multiple |-> mult, endswith_range |-> rng]

\* one trigger_multiple threshold, one once-only threshold, one default toggle
CfgBoth == << Toggle(4, FALSE, TRUE, TRUE, NoRange),
              Toggle(3, FALSE, TRUE, FALSE, NoRange),
              Toggle(0, TRUE, FALSE, TRUE, NoRange) >>
\* the threshold of the specification's worked example, scaled by 100
CfgSeq == << Toggle(10, FALSE, TRUE, TRUE, NoRange),
             Toggle(12, FALSE, TRUE, FALSE, NoRange),
             Toggle(0, TRUE, FALSE, TRUE, NoRange) >>
\* one trigger_multiple threshold and a default toggle
CfgMult == << Toggle(4, FALSE, TRUE, TRUE, NoRange),
              Toggle(0, TRUE, FALSE, TRUE, NoRange) >>

\* a threshold with a digit range, a non-default toggle with a digit range
\* only, a default toggle and a default toggle with a digit range
CfgTog == << Toggle(10, FALSE, TRUE, TRUE, <<0, 3>>),
             Toggle(0, FALSE, FALSE, TRUE, <<2, 5>>),
             Toggle(0, TRUE, FALSE, TRUE, NoRange),
             Toggle(0, TRUE, FALSE, TRUE, <<0, 4>>) >>

\* a use_total toggle that names a digit range and leaves threshold at its
\* serde default of 0 (trigger_multiple defaults to true), a threshold and a
\* default toggle
CfgZero == << Toggle(3, FALSE, TRUE, FALSE, NoRange),
              Toggle(0, FALSE, TRUE, TRUE, <<0, 3>>),
              Toggle(0, TRUE, FALSE, TRUE, NoRange) >>

\* a non-default toggle with a threshold and use_total left at its serde
\* default of false, and a default toggle
CfgUse == << Toggle(4, FALSE, FALSE, TRUE, NoRange),
             Toggle(0, TRUE, FALSE, TRUE, NoRange) >>

\* two toggles on the same threshold, one on another threshold, and a
\* default toggle
CfgSame == << Toggle(4, FALSE, TRUE, TRUE, NoRange),
              Toggle(5, FALSE, TRUE, TRUE, NoRange),
              Toggle(4, FALSE, TRUE, TRUE, NoRange),
              Toggle(0, TRUE, FALSE, TRUE, NoRange) >>

\* one trigger_multiple threshold and a default toggle open to every digit
CfgDup == << Toggle(4, FALSE, TRUE, TRUE, NoRange),
             Toggle(0, TRUE, FALSE, TRUE, <<0, 9>>) >>

(***************************************************************************)
(* HashMap helpers: a map is a function whose domain is the set of keys    *)
(* present.                                                                *)
(***************************************************************************)
MapGet(m, k, d) == IF k \in DOMAIN m THEN m[k] ELSE d
MapPut(m, k, v) == [x \in (DOMAIN m) \cup {k} |-> IF x = k THEN v ELSE m[x]]
EmptyMap == [x \in {} |-> 0]

\* i64 division truncates toward zero
I64Div(a, b) == IF a >= 0 THEN a \div b ELSE -((-a) \div b)

(***************************************************************************)
(* SatTracker: a tracker is a record                                       *)
(*   [total, by_source, last_triggered_multiple, triggered_once].          *)
(***************************************************************************)
NewTracker == [total |-> 0, by_source |-> EmptyMap,
               last_triggered_multiple |-> EmptyMap,
               triggered_once |-> EmptyMap]

TrackerAdd(tr, source, sats) ==
    [tr EXCEPT !.total = tr.total + sats,
               !.by_source = MapPut(tr.by_source, source,
                                    MapGet(tr.by_source, source, 0) + sats)]

\* a plausible slip: "<=" where the code compares the total with "<"
ShouldTriggerThresholdMut(tr, previous_total, new_total, threshold, trigger_multiple) ==
    IF new_total <= threshold THEN FALSE
    ELSE IF trigger_multiple
         THEN IF I64Div(new_total, threshold) > I64Div(previous_total, threshold)
              THEN I64Div(new_total, threshold)
                     > MapGet(tr.last_triggered_multiple, threshold, 0)
              ELSE FALSE
         ELSE ~ MapGet(tr.triggered_once, threshold, FALSE)

ShouldTriggerThreshold(tr, previous_total, new_total, threshold, trigger_multiple) ==
    IF new_total < threshold THEN FALSE
    ELSE IF trigger_multiple
         THEN LET previous_multiple == I64Div(previous_total, threshold)
                  new_multiple == I64Div(new_total, threshold)
              IN  IF new_multiple > previous_multiple
                  THEN new_multiple
                         > MapGet(tr.last_triggered_multiple, threshold, 0)
                  ELSE FALSE
         ELSE ~ MapGet(tr.triggered_once, threshold, FALSE)

\* a plausible slip: the once-only flag is not recorded
UpdateLastTriggeredThresholdMut(tr, threshold, trigger_multiple) ==
    IF trigger_multiple
    THEN [tr EXCEPT !.last_triggered_multiple =
              MapPut(tr.last_triggered_multiple, threshold,
                     I64Div(tr.total, threshold))]
    ELSE tr

UpdateLastTriggeredThreshold(tr, threshold, trigger_multiple) ==
    IF trigger_multiple
    THEN [tr EXCEPT !.last_triggered_multiple =
              MapPut(tr.last_triggered_multiple, threshold,
                     I64Div(tr.total, threshold))]
    ELSE [tr EXCEPT !.triggered_once =
              MapPut(tr.triggered_once, threshold, TRUE)]

\* a plausible slip: the seed is one multiple short
SyncOneMut(tr, th) ==
    IF th[2]
    THEN [tr EXCEPT !.last_triggered_multiple =
              MapPut(tr.last_triggered_multiple, th[1],
                     I64Div(tr.total, th[1]) - 1)]
    ELSE IF tr.total >= th[1]
         THEN [tr EXCEPT !.triggered_once = MapPut(tr.triggered_once, th[1], TRUE)]
         ELSE tr

\* the body of the loop of sync_trigger_state for one (threshold, trigger_multiple)
SyncOne(tr, th) ==
    IF th[2]
    THEN [tr EXCEPT !.last_triggered_multiple =
              MapPut(tr.last_triggered_multiple, th[1],
                     I64Div(tr.total, th[1]))]
    ELSE IF tr.total >= th[1]
         THEN [tr EXCEPT !.triggered_once = MapPut(tr.triggered_once, th[1], TRUE)]
         ELSE tr

RECURSIVE SyncTriggerState(_, _)
SyncTriggerState(tr, thresholds) ==
    IF thresholds = << >> THEN tr
    ELSE SyncTriggerState(SyncOne(tr, Head(thresholds)), Tail(thresholds))

(***************************************************************************)
(* State.                                                                  *)
(*   toggles   config.toggles (read-only at run time)                      *)
(*   tracker   the shared SatTracker behind its mutex                      *)
(*   pc, cur, ti, anyTrig   per listener task: its position, the boost it  *)
(*             is processing, the toggle of the loop of trigger_toggles    *)
(*             and the local any_triggered                                 *)
(*   ret       the phase process_boost returns to (backfill or live)       *)
(* History variables (written, never read by the program's actions):       *)
(*   preAdd    the total as it stood immediately before the task's add     *)
(*   dec       the arguments and result of the task's last threshold       *)
(*             decision                                                    *)
(*   fireCount per toggle, how often check_total_threshold returned true   *)
(*   dispatched the (source, event, toggle, phase) handed to               *)
(*             trigger_single_toggle                                       *)
(*   nLive     per source, the number of live boosts delivered             *)
(*   log       per source, for every finished live boost its sats and the  *)
(*             toggles whose threshold check fired for it                  *)
(***************************************************************************)
VARIABLES toggles, tracker, pc, cur, ti, anyTrig, ret,
          preAdd, dec, fireCount, dispatched, nLive, log

(***************************************************************************)
(* State of the listeners' lifecycle and of the producers.                 *)
(*   now        the wall clock (Timestamp::now())                          *)
(*   store      per source, the events its producer has published, in the  *)
(*              order of their timestamps: [ts, sats, action]              *)
(*   loadSince  per source, the configured load_since (NoTime if unset)    *)
(*   since      per listener, its local load_since                         *)
(*   queue      per listener, the fetched events still to be handed to the *)
(*              callback (a backfill page or a polled list)                *)
(*   subStart   Boostboard's subscription_start_time                       *)
(*   rcur       per relay subscription, the last stored event considered   *)
(*   lastAt     NWC's last_boost_at, then last_created_at, NoTime if None  *)
(*   nwcMode    "listen" or "poll", as get_info answers                    *)
(*   status     per source, the last ComponentStatus sent to the observer  *)
(* History variables:                                                      *)
(*   addCount   per source and event, how often SatTracker::add ran for it *)
(*   syncCount  per source, how often sync_trigger_state was called        *)
(*   liveStart  per source, the clock when its live subscription started   *)
(*   seed       per toggle, the multiple of the last sync (NoTime if none) *)
(*   onceSeeded per toggle, whether a sync marked it triggered             *)
(***************************************************************************)
VARIABLES now, store, loadSince, since, queue, subStart, rcur, lastAt, nwcMode,
          status, addCount, syncCount, liveStart, seed, onceSeeded

(***************************************************************************)
(* State of the listener supervisor.                                       *)
(*   handles    listener_handles: per source the stored task, 0 if none    *)
(*   tstate     per spawned task: "none" (not spawned yet), "pre" (before  *)
(*              its select!: connecting, backfilling, syncing), "live"     *)
(*              (inside its select!), "done"                               *)
(*   tsrc       per task, the source it listens to                         *)
(*   tcancel    per task, whether its CancellationToken is cancelled       *)
(*   configured the sources the configuration file holds                   *)
(*   cpc, cname, cold   per caller (the startup task and the control       *)
(*              loop): its position in start_listener / stop_listener,     *)
(*              the name it was called with and the handle it removed      *)
(*   cstart     per caller, whether stop_listener runs inside              *)
(*              start_listener                                             *)
(*   todo       the sources the startup task has still to start            *)
(*   ncmd       the number of commands the control loop has received       *)
(***************************************************************************)
VARIABLES handles, tstate, tsrc, tcancel, configured, cpc, cname, cold, cstart,
          todo, ncmd

(***************************************************************************)
(* Further state.                                                          *)
(*   lock      the holder of the SatTracker mutex at the task's next await, *)
(*             "none" if it is free                                        *)
(*   sinks     the outcomes trigger_single_toggle can have: TRUE (Ok) and,  *)
(*             when an effect sink can fail, FALSE (Err)                   *)
(* History variables:                                                      *)
(*   failed    the (source, event, toggle) whose trigger_single_toggle     *)
(*             returned Err                                                *)
(*   cutAt     per source, the position at which the cancellation dropped  *)
(*             the listener's stream future ("" if it was not cancelled)   *)
(*   sumAdded  the sum of the sats of all add calls so far                 *)
(*   lastRet   the value the last add call returned                        *)
(*   prevTotal the total as it stood before the last add call              *)
(*   nAdd      the number of direct add calls                              *)
(***************************************************************************)
VARIABLES lock, sinks, failed, cutAt, sumAdded, lastRet, prevTotal, nAdd

(***************************************************************************)
(* The channels of the control loop.                                       *)
(*   rx        the messages waiting in the channel the control loop reads  *)
(*             (commands of the GUI, reports of the startup's listeners)   *)
(*   gui       the number of messages waiting in the observer channel      *)
(*             (gui_tx / gui_rx)                                           *)
(* History variable:                                                       *)
(*   nsent     the number of start and stop commands sent to the loop      *)
(***************************************************************************)
VARIABLES rx, gui, nsent

(***************************************************************************)
(* History variable:                                                       *)
(*   firedMult the (threshold, multiple) a trigger_multiple threshold has  *)
(*             fired at or has been seeded with by sync_trigger_state      *)
(***************************************************************************)
VARIABLES firedMult

(***************************************************************************)
(* The filter decision on its own:                                         *)
(*   fcase     the BoostFilters, the boost and its timestamp, the place    *)
(*             that applied the filters and what it decided                *)
(***************************************************************************)
VARIABLES fcase

(***************************************************************************)
(* The status and total reports on their way to the observer.              *)
(*   tchan     the sender a listener task was spawned with: "tx" (the      *)
(*             startup task's tx_clone, read by the control loop) or "gui" *)
(*             (the control loop's gui_tx, read by the observer)           *)
(*   held      the message rx.recv() returned and the loop is forwarding   *)
(* History variables:                                                      *)
(*   glog      the status messages whose send on gui_tx has completed, in  *)
(*             the order the observer receives them                        *)
(*   sentTotal the value of the last UpdateSatTotal sent, if any           *)
(***************************************************************************)
VARIABLES tchan, held, glog, sentTotal

\* the control loop holds no message
NoStatus == [kind |-> "Status", name |-> "Zaps", status |-> "Disabled", task |-> 0]

auxVars == <<lock, sinks, failed, cutAt, sumAdded, lastRet, prevTotal, nAdd,
             rx, gui, nsent, firedMult, fcase, tchan, held, glog, sentTotal>>

supVars == <<handles, tstate, tsrc, tcancel, configured, cpc, cname, cold, cstart,
             todo, ncmd>>

lifeVars == <<now, store, loadSince, since, queue, subStart, rcur, lastAt, nwcMode,
              status, addCount, syncCount, liveStart, seed, onceSeeded>>

coreVars == <<toggles, tracker, pc, cur, ti, anyTrig, ret,
              preAdd, dec, fireCount, dispatched, nLive, log>>

NoBoost == [sats |-> 0, trigger |-> FALSE, ev |-> 0, fired |-> {}]
NoDec == [i |-> 0, prev |-> 0, new |-> 0, last |-> 0, once |-> FALSE, fire |-> FALSE]

LastDigit(sats) == IF sats >= 0 THEN sats % 10 ELSE (-sats) % 10

InRange(t, digit) ==
    \/ t.endswith_range = NoRange
    \/ (digit >= t.endswith_range[1] /\ digit <= t.endswith_range[2])

\* the toggles after position i that the first pass of trigger_toggles visits
NextNonDefault(i) ==
    LET js == {j \in (i + 1)..Len(toggles) : ~ toggles[j].is_default}
    IN  IF js = {} THEN Len(toggles) + 1
        ELSE CHOOSE j \in js : \A k \in js : j <= k

\* the default toggles after position i whose endswith_range admits the digit
NextDefault(i, digit) ==
    LET js == {j \in (i + 1)..Len(toggles) :
                  toggles[j].is_default /\ InRange(toggles[j], digit)}
    IN  IF js = {} THEN Len(toggles) + 1
        ELSE CHOOSE j \in js : \A k \in js : j <= k

\* a plausible slip: the second pass does not test any_triggered
AfterFirstMut(i, any, digit) ==
    IF NextNonDefault(i) <= Len(toggles)
    THEN <<"tt_first", NextNonDefault(i)>>
    ELSE IF NextDefault(0, digit) > Len(toggles)
         THEN <<"pb_report", 0>>
         ELSE <<"tt_default", NextDefault(0, digit)>>

\* where trigger_toggles goes once the first-pass toggle i is finished
AfterFirst(i, any, digit) ==
    IF NextNonDefault(i) <= Len(toggles)
    THEN <<"tt_first", NextNonDefault(i)>>
    ELSE IF any \/ NextDefault(0, digit) > Len(toggles)
         THEN <<"pb_report", 0>>
         ELSE <<"tt_default", NextDefault(0, digit)>>

\* where trigger_toggles goes once the default toggle i is dispatched
AfterDefault(i, digit) ==
    IF NextDefault(i, digit) <= Len(toggles)
    THEN <<"tt_default", NextDefault(i, digit)>>
    ELSE <<"pb_report", 0>>

\* a plausible slip: the record is made from the total before the boost
CheckTotalThresholdMut(tr, threshold, trigger_multiple, boost_amount) ==
    LET new_total == tr.total
        previous_total == new_total - boost_amount
        should_trigger == ShouldTriggerThreshold(tr, previous_total, new_total,
                                                 threshold, trigger_multiple)
    IN  [fire |-> should_trigger,
         prev |-> previous_total,
         new |-> new_total,
         tr |-> IF should_trigger
                THEN IF trigger_multiple
                     THEN [tr EXCEPT !.last_triggered_multiple =
                              MapPut(tr.last_triggered_multiple, threshold,
                                     I64Div(previous_total, threshold))]
                     ELSE UpdateLastTriggeredThreshold(tr, threshold, trigger_multiple)
                ELSE tr]

\* check_total_threshold: one hold of the tracker lock
CheckTotalThreshold(tr, threshold, trigger_multiple, boost_amount) ==
    LET new_total == tr.total
        previous_total == new_total - boost_amount
        should_trigger == ShouldTriggerThreshold(tr, previous_total, new_total,
                                                 threshold, trigger_multiple)
    IN  [fire |-> should_trigger,
         prev |-> previous_total,
         new |-> new_total,
         tr |-> IF should_trigger
                THEN UpdateLastTriggeredThreshold(tr, threshold, trigger_multiple)
                ELSE tr]

\* a plausible slip: effects are triggered whatever the flag says
TriggersEffectsMut(boost) == TRUE

\* process_boost's test of trigger_effects_flag
TriggersEffects(boost) == boost.trigger

(***************************************************************************)
(* The SatTracker mutex.  A guard lives to the end of its scope; each of   *)
(* the three scopes that lock the tracker ends before the next await.      *)
(***************************************************************************)
\* a plausible slip: the guard of process_boost lives to the end of the function
LockAfterAddMut(s) == s

\* process_boost: the guard is dropped at the end of the block of the add
LockAfterAdd(s) == "none"

\* check_total_threshold: the guard is dropped when the function returns
LockAfterCheck(s) == "none"

\* sync_threshold_triggers: the guard is dropped at the end of the if block
LockAfterSync(s) == "none"

\* SatTracker::add returns the new total
AddReturn(tr, source, sats) == TrackerAdd(tr, source, sats).total

\* a plausible slip: a failed dispatch ends trigger_toggles (the error is
\* propagated with "?")
AfterDispatchMut(i, ok, digit) ==
    IF ok THEN AfterFirst(i, TRUE, digit) ELSE <<"pb_report", 0>>

\* where trigger_toggles goes after trigger_single_toggle returned Ok (ok) or
\* Err for the first-pass toggle i: the error is printed and the loop goes on
AfterDispatch(i, ok, digit) == AfterFirst(i, TRUE, digit)

(***************************************************************************)
(* process_boost, one action per stretch of code between two awaits.       *)
(***************************************************************************)
\* lock, SatTracker::add, unlock
PbAdd(s) ==
    /\ pc[s] = "pb_add"
    /\ lock = "none"
    /\ tracker' = TrackerAdd(tracker, s, cur[s].sats)
    /\ lock' = LockAfterAdd(s)
    /\ sumAdded' = sumAdded + cur[s].sats
    /\ lastRet' = AddReturn(tracker, s, cur[s].sats)
    /\ prevTotal' = tracker.total
    /\ preAdd' = [preAdd EXCEPT ![s] = tracker.total]
    /\ pc' = [pc EXCEPT ![s] = "pb_total"]
    /\ addCount' = IF cur[s].ev \in DOMAIN addCount[s]
                   THEN [addCount EXCEPT ![s][cur[s].ev] = @ + 1]
                   ELSE addCount
    /\ UNCHANGED <<toggles, cur, ti, anyTrig, ret, dec, fireCount, dispatched, nLive, log>>
    /\ UNCHANGED <<now, store, loadSince, since, queue, subStart, rcur, lastAt, nwcMode,
                   status, syncCount, liveStart, seed, onceSeeded>>
    /\ UNCHANGED supVars
    /\ UNCHANGED <<sinks, failed, cutAt, nAdd, rx, gui, nsent, firedMult, fcase, tchan, held, glog, sentTotal>>

\* process_boost: the value add returned to the task, held in its local total
LocalTotal(s) == preAdd[s] + cur[s].sats

\* tx.send(UpdateSatTotal), then the start of trigger_toggles or the skip of it
PbSendTotal(s) ==
    /\ pc[s] = "pb_total"
    /\ sentTotal' = << LocalTotal(s) >>
    /\ LET nxt == IF TriggersEffects(cur[s])
                  THEN AfterFirst(0, FALSE, LastDigit(cur[s].sats))
                  ELSE <<"pb_report", 0>>
       IN  /\ pc' = [pc EXCEPT ![s] = nxt[1]]
           /\ ti' = [ti EXCEPT ![s] = nxt[2]]
    /\ anyTrig' = [anyTrig EXCEPT ![s] = FALSE]
    /\ UNCHANGED <<toggles, tracker, cur, ret, preAdd, dec, fireCount, dispatched, nLive, log>>
    /\ UNCHANGED lifeVars
    /\ UNCHANGED supVars
    /\ UNCHANGED <<lock, sinks, failed, cutAt, sumAdded, lastRet, prevTotal, nAdd, rx, gui,
                   nsent, firedMult, fcase, tchan, held, glog>>

\* first pass of trigger_toggles for toggle ti[s]: the threshold check under
\* the tracker lock, then the endswith_range test
TtCheck(s) ==
    /\ pc[s] = "tt_first"
    /\ toggles[ti[s]].threshold > 0 => lock = "none"
    /\ lock' = IF toggles[ti[s]].threshold > 0 THEN LockAfterCheck(s) ELSE lock
    /\ LET t == toggles[ti[s]]
           digit == LastDigit(cur[s].sats)
           chk == CheckTotalThreshold(tracker, t.threshold, t.trigger_multiple, cur[s].sats)
           should == IF t.threshold > 0 THEN chk.fire ELSE t.endswith_range # NoRange
           go == should /\ InRange(t, digit)
           nxt == IF go THEN <<"tt_dispatch", ti[s]>>
                  ELSE AfterFirst(ti[s], anyTrig[s], digit)
       IN  /\ tracker' = IF t.threshold > 0 THEN chk.tr ELSE tracker
           /\ dec' = [dec EXCEPT ![s] =
                        IF t.threshold > 0
                        THEN [i |-> ti[s], prev |-> chk.prev, new |-> chk.new,
                              last |-> MapGet(tracker.last_triggered_multiple, t.threshold, 0),
                              once |-> MapGet(tracker.triggered_once, t.threshold, FALSE),
                              fire |-> chk.fire]
                        ELSE @]
           /\ fireCount' = IF t.threshold > 0 /\ chk.fire
                           THEN [fireCount EXCEPT ![ti[s]] = @ + 1]
                           ELSE fireCount
           /\ anyTrig' = [anyTrig EXCEPT ![s] = @ \/ go]
           /\ pc' = [pc EXCEPT ![s] = nxt[1]]
           /\ ti' = [ti EXCEPT ![s] = nxt[2]]
           /\ cur' = [cur EXCEPT ![s].fired =
                        IF t.threshold > 0 /\ chk.fire THEN @ \cup {ti[s]} ELSE @]
           /\ firedMult' = IF t.threshold > 0 /\ chk.fire /\ t.trigger_multiple
                            THEN firedMult \cup
                                 {<<t.threshold, I64Div(chk.new, t.threshold)>>}
                            ELSE firedMult
    /\ UNCHANGED <<toggles, ret, preAdd, dispatched, nLive, log>>
    /\ UNCHANGED lifeVars
    /\ UNCHANGED supVars
    /\ UNCHANGED <<sinks, failed, cutAt, sumAdded, lastRet, prevTotal, nAdd, rx, gui, nsent, fcase, tchan, held, glog, sentTotal>>

\* trigger_single_toggle for a fired non-default toggle; its failure is logged only
TtDispatch(s) ==
    /\ pc[s] = "tt_dispatch"
    /\ dispatched' = dispatched \cup {<<s, cur[s].ev, ti[s], ret[s]>>}
    /\ \E ok \in sinks :
          /\ failed' = IF ok THEN failed ELSE failed \cup {<<s, cur[s].ev, ti[s]>>}
          /\ LET nxt == AfterDispatch(ti[s], ok, LastDigit(cur[s].sats))
             IN  /\ pc' = [pc EXCEPT ![s] = nxt[1]]
                 /\ ti' = [ti EXCEPT ![s] = nxt[2]]
    /\ UNCHANGED <<toggles, tracker, cur, anyTrig, ret, preAdd, dec, fireCount, nLive, log>>
    /\ UNCHANGED lifeVars
    /\ UNCHANGED supVars
    /\ UNCHANGED <<lock, sinks, cutAt, sumAdded, lastRet, prevTotal, nAdd, rx, gui, nsent, firedMult, fcase, tchan, held, glog, sentTotal>>

\* trigger_single_toggle for a matching default toggle
TtDispatchDefault(s) ==
    /\ pc[s] = "tt_default"
    /\ dispatched' = dispatched \cup {<<s, cur[s].ev, ti[s], ret[s]>>}
    /\ \E ok \in sinks :
          failed' = IF ok THEN failed ELSE failed \cup {<<s, cur[s].ev, ti[s]>>}
    /\ LET nxt == AfterDefault(ti[s], LastDigit(cur[s].sats))
       IN  /\ pc' = [pc EXCEPT ![s] = nxt[1]]
           /\ ti' = [ti EXCEPT ![s] = nxt[2]]
    /\ UNCHANGED <<toggles, tracker, cur, anyTrig, ret, preAdd, dec, fireCount, nLive, log>>
    /\ UNCHANGED lifeVars
    /\ UNCHANGED supVars
    /\ UNCHANGED <<lock, sinks, cutAt, sumAdded, lastRet, prevTotal, nAdd, rx, gui, nsent, firedMult, fcase, tchan, held, glog, sentTotal>>

\* tx.send(BoostReceived) and the return to the producer's loop
PbReport(s) ==
    /\ pc[s] = "pb_report"
    /\ pc' = [pc EXCEPT ![s] = ret[s]]
    /\ log' = [log EXCEPT ![s] =
                 IF cur[s].trigger
                 THEN Append(@, <<cur[s].sats, cur[s].fired>>)
                 ELSE @]
    /\ cur' = [cur EXCEPT ![s] = NoBoost]
    /\ dec' = [dec EXCEPT ![s] = NoDec]
    /\ preAdd' = [preAdd EXCEPT ![s] = 0]
    /\ ti' = [ti EXCEPT ![s] = 0]
    /\ anyTrig' = [anyTrig EXCEPT ![s] = FALSE]
    /\ UNCHANGED <<toggles, tracker, ret, fireCount, dispatched, nLive>>
    /\ UNCHANGED lifeVars
    /\ UNCHANGED supVars
    /\ UNCHANGED auxVars

ProcessBoost(s) ==
    \/ PbAdd(s)
    \/ PbSendTotal(s)
    \/ TtCheck(s)
    \/ TtDispatch(s)
    \/ TtDispatchDefault(s)
    \/ PbReport(s)

(***************************************************************************)
(* The live phase on its own: every listener is blocked on its event       *)
(* stream and the producers deliver boosts of any amount.                  *)
(***************************************************************************)
\* the sats of the boosts the producers deliver
SatsValues == {2, 3}
\* the sats of the boosts of the worked example (600 and 500, scaled by 100)
SeqSats == {5, 6}
\* the sats of the boosts of the toggle-policy specification
TogSats == {2, 7, 8}
\* the sats of boostagrams whose value_msat_total (an i64 read from JSON) can
\* be negative
DupSats == {-3, 3, 4}
Sats == IF toggles = CfgSeq THEN SeqSats
        ELSE IF toggles = CfgTog THEN TogSats
        ELSE IF toggles = CfgDup THEN DupSats ELSE SatsValues
LiveBound == IF toggles = CfgSeq THEN MaxSeq
             ELSE IF toggles \in {CfgTog, CfgSame, CfgDup} THEN MaxTog ELSE MaxLive
\* the sats a backfill has added before the listeners went live
BaseTotals == {0, 3}

\* sync_threshold_triggers' list: the (threshold, trigger_multiple) of the
\* non-default use_total toggles
SyncThresholds(tg) ==
    LET keep == SelectSeq(tg, LAMBDA t : ~ t.is_default /\ t.use_total)
    IN  [i \in 1..Len(keep) |-> <<keep[i].threshold, keep[i].trigger_multiple>>]

\* sync_threshold_triggers: the tracker is locked and synced only if the list
\* is not empty
SyncThresholdTriggers(tr, tg) ==
    IF SyncThresholds(tg) = << >> THEN tr
    ELSE SyncTriggerState(tr, SyncThresholds(tg))

\* a live boost arrives from the producer of s: the callback starts process_boost
LiveBoost(s) ==
    /\ pc[s] = "live"
    /\ nLive[s] < LiveBound
    /\ \E sats \in Sats :
          cur' = [cur EXCEPT ![s] = [sats |-> sats, trigger |-> TRUE,
                                     ev |-> nLive[s] + 1, fired |-> {}]]
    /\ nLive' = [nLive EXCEPT ![s] = @ + 1]
    /\ pc' = [pc EXCEPT ![s] = "pb_add"]
    /\ ret' = [ret EXCEPT ![s] = "live"]
    /\ UNCHANGED <<toggles, tracker, ti, anyTrig, preAdd, dec, fireCount, dispatched, log>>
    /\ UNCHANGED lifeVars
    /\ UNCHANGED supVars
    /\ UNCHANGED auxVars

(***************************************************************************)
(* The producers and the listeners' lifecycle.                             *)
(***************************************************************************)
\* the action field of a boostagram
Actions == {"boost", "stream"}

\* BoostFilters of the listeners: no before/after bound is configured
Filters == [after |-> NoTime, before |-> NoTime]

\* a plausible slip: the bounds are inclusive
MatchesTimestampMut(f, ts) ==
    /\ (f.after = NoTime \/ ts >= f.after)
    /\ (f.before = NoTime \/ ts <= f.before)

\* BoostFilters::matches_timestamp
MatchesTimestamp(f, ts) ==
    /\ (f.after = NoTime \/ ts > f.after)
    /\ (f.before = NoTime \/ ts < f.before)

\* Option<Vec<String>>: None, or Some of a list
None == [some |-> FALSE, list |-> << >>]
Some(l) == [some |-> TRUE, list |-> l]

\* a podcast name is a sequence of characters; str::to_lowercase
LowerChar(c) == IF c = "A" THEN "a" ELSE IF c = "B" THEN "b" ELSE c
ToLowercase(str) == [i \in 1..Len(str) |-> LowerChar(str[i])]

\* str::contains: the needle occurs in the haystack (the empty needle always)
StrContains(h, n) ==
    \E i \in 0..(Len(h) - Len(n)) : SubSeq(h, i + 1, i + Len(n)) = n

\* Vec::contains
VecContains(v, x) == \E i \in 1..Len(v) : v[i] = x

\* BoostFilters::has_content_filters
HasContentFilters(f) ==
    f.podcasts.some \/ f.episode_guids.some \/ f.event_guids.some

\* a plausible slip: the emptiness test of the boost's GUIDs is left out
MatchesBoostMut(f, boost) ==
    IF ~ HasContentFilters(f) THEN TRUE
    ELSE LET podcast_match ==
                 /\ f.podcasts.some
                 /\ \E i \in 1..Len(f.podcasts.list) :
                       StrContains(ToLowercase(boost.podcast),
                                   ToLowercase(f.podcasts.list[i]))
             episode_match ==
                 /\ f.episode_guids.some
                 /\ VecContains(f.episode_guids.list, boost.episode_guid)
             event_match ==
                 /\ f.event_guids.some
                 /\ VecContains(f.event_guids.list, boost.event_guid)
         IN  podcast_match \/ episode_match \/ event_match

\* BoostFilters::matches_boost
MatchesBoost(f, boost) ==
    IF ~ HasContentFilters(f) THEN TRUE
    ELSE LET podcast_match ==
                 /\ f.podcasts.some
                 /\ \E i \in 1..Len(f.podcasts.list) :
                       StrContains(ToLowercase(boost.podcast),
                                   ToLowercase(f.podcasts.list[i]))
             episode_match ==
                 /\ f.episode_guids.some
                 /\ boost.episode_guid # ""
                 /\ VecContains(f.episode_guids.list, boost.episode_guid)
             event_match ==
                 /\ f.event_guids.some
                 /\ boost.event_guid # ""
                 /\ VecContains(f.event_guids.list, boost.event_guid)
         IN  podcast_match \/ episode_match \/ event_match

\* no filter decision is being made
NoCase == [f |-> [podcasts |-> None, episode_guids |-> None, event_guids |-> None,
                  after |-> NoTime, before |-> NoTime],
           boost |-> [podcast |-> << >>, episode_guid |-> "", event_guid |-> ""],
           ts |-> 0, path |-> "", res |-> "none"]

\* parse_load_since: the configured timestamp, or the default
ParseLoadSince(cfg, default) == IF cfg = NoTime THEN default ELSE cfg

\* BoostFilters::get_since_timestamp: since.max(self.after)
GetSinceTimestamp(f, sinceTs) == IF f.after > sinceTs THEN f.after ELSE sinceTs

\* the positions of store[s] whose events satisfy P, ascending
RECURSIVE IdsFrom(_, _, _)
IdsFrom(s, i, from) ==
    IF i > Len(store[s]) THEN << >>
    ELSE IF store[s][i].ts >= from /\ MatchesTimestamp(Filters, store[s][i].ts)
         THEN <<i>> \o IdsFrom(s, i + 1, from)
         ELSE IdsFrom(s, i + 1, from)

Reverse(q) == [i \in 1..Len(q) |-> q[Len(q) + 1 - i]]

\* sort_by_key on the creation date (a stable sort): position e goes behind
\* the positions already placed whose date is not later
InsertByKey(s, sorted, e) ==
    LET n == Cardinality({i \in 1..Len(sorted) :
                            store[s][sorted[i]].ts <= store[s][e].ts})
    IN  SubSeq(sorted, 1, n) \o <<e>> \o SubSeq(sorted, n + 1, Len(sorted))

RECURSIVE SortByKey(_, _)
SortByKey(s, q) ==
    IF q = << >> THEN << >>
    ELSE InsertByKey(s, SortByKey(s, SubSeq(q, 1, Len(q) - 1)), q[Len(q)])

\* the wall clock advances
Tick ==
    /\ now < MaxTime
    /\ now' = now + 1
    /\ UNCHANGED coreVars
    /\ UNCHANGED <<store, loadSince, since, queue, subStart, rcur, lastAt, nwcMode,
                   status, addCount, syncCount, liveStart, seed, onceSeeded>>
    /\ UNCHANGED supVars
    /\ UNCHANGED auxVars

\* the producer of s publishes an event stamped with the clock
Produce(s) ==
    /\ pc[s] # "stopped"
    /\ Len(store[s]) < MaxEvents
    /\ \E sats \in Sats, a \in Actions :
          store' = [store EXCEPT ![s] =
                      Append(@, [ts |-> now, sats |-> sats,
                                 action |-> IF s = "Zaps" THEN "boost" ELSE a])]
    /\ addCount' = [addCount EXCEPT ![s] = Append(@, 0)]
    /\ UNCHANGED coreVars
    /\ UNCHANGED <<now, loadSince, since, queue, subStart, rcur, lastAt, nwcMode,
                   status, syncCount, liveStart, seed, onceSeeded>>
    /\ UNCHANGED supVars
    /\ UNCHANGED auxVars

\* initialize_listener: the Running status
Initialize(s) ==
    /\ pc[s] = "spawned"
    /\ pc' = [pc EXCEPT ![s] = "connect"]
    /\ status' = [status EXCEPT ![s] = "Running"]
    /\ UNCHANGED <<toggles, tracker, cur, ti, anyTrig, ret, preAdd, dec, fireCount,
                   dispatched, nLive, log>>
    /\ UNCHANGED <<now, store, loadSince, since, queue, subStart, rcur, lastAt, nwcMode,
                   addCount, syncCount, liveStart, seed, onceSeeded>>
    /\ UNCHANGED supVars
    /\ UNCHANGED auxVars

\* Zaps::new, BoostBoard::new, NWC::new succeed; load_since is parsed
Connect(s) ==
    /\ pc[s] = "connect"
    /\ since' = [since EXCEPT ![s] = ParseLoadSince(loadSince[s], now)]
    /\ pc' = [pc EXCEPT ![s] = IF s = "Zaps" THEN "subscribe" ELSE "load"]
    /\ UNCHANGED <<toggles, tracker, cur, ti, anyTrig, ret, preAdd, dec, fireCount,
                   dispatched, nLive, log>>
    /\ UNCHANGED <<now, store, loadSince, queue, subStart, rcur, lastAt, nwcMode,
                   status, addCount, syncCount, liveStart, seed, onceSeeded>>
    /\ UNCHANGED supVars
    /\ UNCHANGED auxVars

\* the connection fails: handle_connection_error and return
ConnectFail(s) ==
    /\ pc[s] = "connect"
    /\ status' = [status EXCEPT ![s] = "Error"]
    /\ pc' = [pc EXCEPT ![s] = "done"]
    /\ UNCHANGED <<toggles, tracker, cur, ti, anyTrig, ret, preAdd, dec, fireCount,
                   dispatched, nLive, log>>
    /\ UNCHANGED <<now, store, loadSince, since, queue, subStart, rcur, lastAt, nwcMode,
                   addCount, syncCount, liveStart, seed, onceSeeded>>
    /\ UNCHANGED supVars
    /\ UNCHANGED auxVars

\* the historical events are fetched: StoredBoosts::load reads every stored
\* boost of the API, NWC::load_previous_boosts the transactions from load_since;
\* both sort what the producer returned by creation date before the callback
Load(s) ==
    /\ pc[s] = "load"
    /\ queue' = [queue EXCEPT ![s] =
                   IF s = "NWC"
                   THEN SortByKey(s, IdsFrom(s, 1, GetSinceTimestamp(Filters, since[s])))
                   ELSE SortByKey(s, IdsFrom(s, 1, 0))]
    /\ lastAt' = IF s = "NWC" THEN since[s] ELSE lastAt
    /\ pc' = [pc EXCEPT ![s] = "backfill"]
    /\ UNCHANGED <<toggles, tracker, cur, ti, anyTrig, ret, preAdd, dec, fireCount,
                   dispatched, nLive, log>>
    /\ UNCHANGED <<now, store, loadSince, since, subStart, rcur, nwcMode,
                   status, addCount, syncCount, liveStart, seed, onceSeeded>>
    /\ UNCHANGED supVars
    /\ UNCHANGED auxVars

\* the fetch fails: Boostboard drops the error, NWC reports it and goes on
\* with no latest timestamp
LoadFail(s) ==
    /\ pc[s] = "load"
    /\ status' = [status EXCEPT ![s] = IF s = "NWC" THEN "Error" ELSE @]
    /\ lastAt' = IF s = "NWC" THEN NoTime ELSE lastAt
    /\ pc' = [pc EXCEPT ![s] = "sync"]
    /\ UNCHANGED <<toggles, tracker, cur, ti, anyTrig, ret, preAdd, dec, fireCount,
                   dispatched, nLive, log>>
    /\ UNCHANGED <<now, store, loadSince, since, queue, subStart, rcur, nwcMode,
                   addCount, syncCount, liveStart, seed, onceSeeded>>
    /\ UNCHANGED supVars
    /\ UNCHANGED auxVars

\* whether the backfill callback of s runs process_boost for event e
BackfillAccepts(s, e) == s = "NWC" \/ store[s][e].action = "boost"

\* whether the live callback of s runs process_boost for event e
LiveAccepts(s, e) == s = "Zaps" \/ store[s][e].action = "boost"

\* the trigger_effects_flag the live callback of s passes for event e
LiveTrigger(s, e) ==
    IF s = "Boostboard" THEN store[s][e].ts >= subStart ELSE TRUE

\* the next historical event goes to the callback: process_boost without effects
Backfill(s) ==
    /\ pc[s] = "backfill"
    /\ IF queue[s] = << >>
       THEN /\ pc' = [pc EXCEPT ![s] = "sync"]
            /\ UNCHANGED <<cur, ret, queue, lastAt>>
       ELSE LET e == Head(queue[s])
            IN  /\ queue' = [queue EXCEPT ![s] = Tail(@)]
                /\ lastAt' = IF s = "NWC" /\ store[s][e].ts > lastAt
                             THEN store[s][e].ts ELSE lastAt
                /\ IF BackfillAccepts(s, e)
                   THEN /\ cur' = [cur EXCEPT ![s] =
                                     [sats |-> store[s][e].sats, trigger |-> FALSE,
                                      ev |-> e, fired |-> {}]]
                        /\ ret' = [ret EXCEPT ![s] = "backfill"]
                        /\ pc' = [pc EXCEPT ![s] = "pb_add"]
                   ELSE UNCHANGED <<cur, ret, pc>>
    /\ UNCHANGED <<toggles, tracker, ti, anyTrig, preAdd, dec, fireCount,
                   dispatched, nLive, log>>
    /\ UNCHANGED <<now, store, loadSince, since, subStart, rcur, nwcMode,
                   status, addCount, syncCount, liveStart, seed, onceSeeded>>
    /\ UNCHANGED supVars
    /\ UNCHANGED auxVars

\* the (threshold, multiple) sync_trigger_state writes for the
\* trigger_multiple entries of a list
SeededMult(tr, ths) ==
    {<<ths[j][1], I64Div(tr.total, ths[j][1])>> :
        j \in {k \in 1..Len(ths) : ths[k][2]}}

\* the first entry of sync_threshold_triggers' list at which
\* sync_trigger_state divides by a zero threshold (0 if there is none)
PanicIndex(tg) ==
    LET ths == SyncThresholds(tg)
        js == {j \in 1..Len(ths) : ths[j][2] /\ ths[j][1] = 0}
    IN  IF js = {} THEN 0 ELSE CHOOSE j \in js : \A k \in js : j <= k

\* sync_trigger_state panics on "current_total / threshold": the entries
\* before the zero threshold are synced, the guard is dropped by the unwind
\* and the task ends without a word to the observer
SyncPanic(s) ==
    /\ pc[s] = "sync"
    /\ PanicIndex(toggles) # 0
    /\ lock = "none"
    /\ tracker' = SyncTriggerState(tracker,
                      SubSeq(SyncThresholds(toggles), 1, PanicIndex(toggles) - 1))
    /\ pc' = [pc EXCEPT ![s] = "done"]
    /\ tstate' = [t \in Tasks |-> IF t = handles[s] THEN "done" ELSE tstate[t]]
    /\ UNCHANGED <<toggles, cur, ti, anyTrig, ret, preAdd, dec, fireCount,
                   dispatched, nLive, log>>
    /\ UNCHANGED lifeVars
    /\ UNCHANGED <<handles, tsrc, tcancel, configured, cpc, cname, cold, cstart,
                   todo, ncmd>>
    /\ firedMult' = firedMult \cup
          SeededMult(tracker, SubSeq(SyncThresholds(toggles), 1,
                                     PanicIndex(toggles) - 1))
    /\ UNCHANGED <<lock, sinks, failed, cutAt, sumAdded, lastRet, prevTotal, nAdd,
                   rx, gui, nsent, fcase, tchan, held, glog, sentTotal>>

\* the event stream ends without an error (the notification channel is
\* closed or lags): the Ok arm of the select! does nothing and the task ends
StreamEnd(s) ==
    /\ pc[s] = "live"
    /\ s = "NWC" => nwcMode = "listen"
    /\ pc' = [pc EXCEPT ![s] = "done"]
    /\ tstate' = [t \in Tasks |-> IF t = handles[s] THEN "done" ELSE tstate[t]]
    /\ UNCHANGED <<toggles, tracker, cur, ti, anyTrig, ret, preAdd, dec, fireCount,
                   dispatched, nLive, log>>
    /\ UNCHANGED lifeVars
    /\ UNCHANGED <<handles, tsrc, tcancel, configured, cpc, cname, cold, cstart,
                   todo, ncmd>>
    /\ UNCHANGED auxVars

\* sync_threshold_triggers; NWC then computes subscription_start
Sync(s) ==
    /\ pc[s] = "sync"
    /\ PanicIndex(toggles) = 0
    /\ SyncThresholds(toggles) # << >> => lock = "none"
    /\ lock' = IF SyncThresholds(toggles) # << >> THEN LockAfterSync(s) ELSE lock
    /\ tracker' = SyncThresholdTriggers(tracker, toggles)
    /\ syncCount' = [syncCount EXCEPT ![s] = @ + 1]
    /\ seed' = [i \in 1..Len(toggles) |->
                  IF ~ toggles[i].is_default /\ toggles[i].use_total
                     /\ toggles[i].trigger_multiple
                  THEN I64Div(tracker.total, toggles[i].threshold) ELSE seed[i]]
    /\ onceSeeded' = [i \in 1..Len(toggles) |->
                  IF ~ toggles[i].is_default /\ toggles[i].use_total
                     /\ ~ toggles[i].trigger_multiple
                     /\ tracker.total >= toggles[i].threshold
                  THEN TRUE ELSE onceSeeded[i]]
    /\ lastAt' = IF s = "NWC"
                 THEN (IF lastAt = NoTime THEN since[s] ELSE lastAt + 1)
                 ELSE lastAt
    /\ pc' = [pc EXCEPT ![s] = "subscribe"]
    /\ UNCHANGED <<toggles, cur, ti, anyTrig, ret, preAdd, dec, fireCount,
                   dispatched, nLive, log>>
    /\ UNCHANGED <<now, store, loadSince, since, queue, subStart, rcur, nwcMode,
                   status, addCount, liveStart>>
    /\ firedMult' = firedMult \cup SeededMult(tracker, SyncThresholds(toggles))
    /\ UNCHANGED supVars
    /\ UNCHANGED <<sinks, failed, cutAt, sumAdded, lastRet, prevTotal, nAdd, rx, gui, nsent, fcase, tchan, held, glog, sentTotal>>

\* the live subscription starts: the relay subscription of Zaps and
\* Boostboard, get_info of NWC
Subscribe(s) ==
    /\ pc[s] = "subscribe"
    /\ liveStart' = [liveStart EXCEPT ![s] = now]
    /\ subStart' = IF s = "Boostboard" THEN now ELSE subStart
    /\ rcur' = [rcur EXCEPT ![s] = 0]
    /\ IF s = "NWC" THEN nwcMode' \in {"listen", "poll"} ELSE nwcMode' = nwcMode
    /\ pc' = [pc EXCEPT ![s] = "live"]
    /\ UNCHANGED <<toggles, tracker, cur, ti, anyTrig, ret, preAdd, dec, fireCount,
                   dispatched, nLive, log>>
    /\ UNCHANGED <<now, store, loadSince, since, queue, lastAt,
                   status, addCount, syncCount, seed, onceSeeded>>
    /\ UNCHANGED supVars
    /\ UNCHANGED auxVars

\* a plausible slip: the error is propagated out of the runtime and every
\* listener ends with it
StreamFailMut(s) ==
    /\ pc[s] \in {"subscribe", "live"}
    /\ status' = [status EXCEPT ![s] = "Error"]
    /\ pc' = [o \in Sources |-> IF pc[o] = "stopped" THEN "stopped" ELSE "done"]
    /\ tstate' = [t \in Tasks |-> IF tstate[t] = "none" THEN "none" ELSE "done"]
    /\ UNCHANGED <<toggles, tracker, cur, ti, anyTrig, ret, preAdd, dec, fireCount,
                   dispatched, nLive, log>>
    /\ UNCHANGED <<now, store, loadSince, since, queue, subStart, rcur, lastAt, nwcMode,
                   addCount, syncCount, liveStart, seed, onceSeeded>>
    /\ UNCHANGED <<handles, tsrc, tcancel, configured, cpc, cname, cold, cstart,
                   todo, ncmd>>
    /\ UNCHANGED auxVars

\* the subscription fails, or the event stream ends with an error: the Error
\* status and the end of the task (its handle stays in listener_handles)
StreamFail(s) ==
    /\ pc[s] \in {"subscribe", "live"}
    /\ status' = [status EXCEPT ![s] = "Error"]
    /\ pc' = [pc EXCEPT ![s] = "done"]
    /\ tstate' = [t \in Tasks |-> IF t = handles[s] THEN "done" ELSE tstate[t]]
    /\ UNCHANGED <<toggles, tracker, cur, ti, anyTrig, ret, preAdd, dec, fireCount,
                   dispatched, nLive, log>>
    /\ UNCHANGED <<now, store, loadSince, since, queue, subStart, rcur, lastAt, nwcMode,
                   addCount, syncCount, liveStart, seed, onceSeeded>>
    /\ UNCHANGED <<handles, tsrc, tcancel, configured, cpc, cname, cold, cstart,
                   todo, ncmd>>
    /\ UNCHANGED auxVars

\* the token of s is cancelled while the listener is in its select!: the
\* cancelled() branch completes at the stream future's next suspension point,
\* the stream future (and the callback's process_boost inside it) is dropped
\* where it stands, and the Disabled status is sent
Cancel(s) ==
    /\ \/ pc[s] \in {"live", "poll_iter"}
       \/ /\ pc[s] \in {"pb_add", "pb_total", "tt_first", "tt_dispatch",
                         "tt_default", "pb_report"}
          /\ ret[s] # "backfill"
    /\ cutAt' = [cutAt EXCEPT ![s] = pc[s]]
    /\ pc' = [pc EXCEPT ![s] = "done"]
    /\ status' = [status EXCEPT ![s] = "Disabled"]
    /\ cur' = [cur EXCEPT ![s] = NoBoost]
    /\ dec' = [dec EXCEPT ![s] = NoDec]
    /\ preAdd' = [preAdd EXCEPT ![s] = 0]
    /\ ti' = [ti EXCEPT ![s] = 0]
    /\ anyTrig' = [anyTrig EXCEPT ![s] = FALSE]
    /\ UNCHANGED <<toggles, tracker, ret, fireCount, dispatched, nLive, log>>
    /\ UNCHANGED <<now, store, loadSince, since, queue, subStart, rcur, lastAt, nwcMode,
                   addCount, syncCount, liveStart, seed, onceSeeded>>
    /\ UNCHANGED supVars
    /\ UNCHANGED <<lock, sinks, failed, sumAdded, lastRet, prevTotal, nAdd, rx, gui, nsent, firedMult, fcase, tchan, held, glog, sentTotal>>

\* the next stored event a relay subscription with "since" delivers
NextRelay(s) ==
    LET from == IF s = "Boostboard" THEN GetSinceTimestamp(Filters, since[s])
                ELSE since[s]
        js == {j \in (rcur[s] + 1)..Len(store[s]) : store[s][j].ts >= from}
    IN  IF js = {} THEN 0 ELSE CHOOSE j \in js : \A k \in js : j <= k

\* the relay delivers an event to the live handler of Zaps or Boostboard
Deliver(s) ==
    /\ s \in {"Zaps", "Boostboard"}
    /\ pc[s] = "live"
    /\ NextRelay(s) # 0
    /\ nLive[s] < LiveBound
    /\ LET e == NextRelay(s)
       IN  /\ rcur' = [rcur EXCEPT ![s] = e]
           /\ IF MatchesTimestamp(Filters, store[s][e].ts) /\ LiveAccepts(s, e)
              THEN /\ cur' = [cur EXCEPT ![s] =
                                [sats |-> store[s][e].sats,
                                 trigger |-> LiveTrigger(s, e),
                                 ev |-> e, fired |-> {}]]
                   /\ ret' = [ret EXCEPT ![s] = "live"]
                   /\ pc' = [pc EXCEPT ![s] = "pb_add"]
                   /\ nLive' = [nLive EXCEPT ![s] = @ + 1]
              ELSE UNCHANGED <<cur, ret, pc, nLive>>
    /\ UNCHANGED <<toggles, tracker, ti, anyTrig, preAdd, dec, fireCount,
                   dispatched, log>>
    /\ UNCHANGED <<now, store, loadSince, since, queue, subStart, lastAt, nwcMode,
                   status, addCount, syncCount, liveStart, seed, onceSeeded>>
    /\ UNCHANGED supVars
    /\ UNCHANGED auxVars

\* NWC::poll_boosts lists the transactions from last_created_at, newest first
Poll(s) ==
    /\ s = "NWC"
    /\ pc[s] = "live"
    /\ nwcMode = "poll"
    /\ nLive[s] < LiveBound
    /\ queue' = [queue EXCEPT ![s] = Reverse(IdsFrom(s, 1, lastAt))]
    /\ pc' = [pc EXCEPT ![s] = "poll_iter"]
    /\ UNCHANGED <<toggles, tracker, cur, ti, anyTrig, ret, preAdd, dec, fireCount,
                   dispatched, nLive, log>>
    /\ UNCHANGED <<now, store, loadSince, since, subStart, rcur, lastAt, nwcMode,
                   status, addCount, syncCount, liveStart, seed, onceSeeded>>
    /\ UNCHANGED supVars
    /\ UNCHANGED auxVars

\* the next polled transaction goes to the callback and moves the cursor;
\* after the last one the loop sleeps
PollIter(s) ==
    /\ pc[s] = "poll_iter"
    /\ IF queue[s] = << >>
       THEN /\ pc' = [pc EXCEPT ![s] = "live"]
            /\ UNCHANGED <<cur, ret, queue, lastAt, nLive>>
       ELSE LET e == Head(queue[s])
            IN  /\ queue' = [queue EXCEPT ![s] = Tail(@)]
                /\ lastAt' = IF store[s][e].ts > lastAt
                             THEN store[s][e].ts + 1 ELSE lastAt
                /\ IF LiveAccepts(s, e)
                   THEN /\ cur' = [cur EXCEPT ![s] =
                                     [sats |-> store[s][e].sats,
                                      trigger |-> LiveTrigger(s, e),
                                      ev |-> e, fired |-> {}]]
                        /\ ret' = [ret EXCEPT ![s] = "poll_iter"]
                        /\ pc' = [pc EXCEPT ![s] = "pb_add"]
                        /\ nLive' = [nLive EXCEPT ![s] = @ + 1]
                   ELSE UNCHANGED <<cur, ret, pc, nLive>>
    /\ UNCHANGED <<toggles, tracker, ti, anyTrig, preAdd, dec, fireCount,
                   dispatched, log>>
    /\ UNCHANGED <<now, store, loadSince, since, subStart, rcur, nwcMode,
                   status, addCount, syncCount, liveStart, seed, onceSeeded>>
    /\ UNCHANGED supVars
    /\ UNCHANGED auxVars

Listener(s) ==
    \/ Initialize(s)
    \/ Connect(s)
    \/ ConnectFail(s)
    \/ Load(s)
    \/ LoadFail(s)
    \/ Backfill(s)
    \/ Sync(s)
    \/ Subscribe(s)
    \/ StreamFail(s)
    \/ Cancel(s)
    \/ Deliver(s)
    \/ Poll(s)
    \/ PollIter(s)

InitTasks ==
    /\ cur = [s \in Sources |-> NoBoost]
    /\ ti = [s \in Sources |-> 0]
    /\ anyTrig = [s \in Sources |-> FALSE]
    /\ ret = [s \in Sources |-> "live"]
    /\ preAdd = [s \in Sources |-> 0]
    /\ dec = [s \in Sources |-> NoDec]
    /\ dispatched = {}
    /\ nLive = [s \in Sources |-> 0]
    /\ log = [s \in Sources |-> << >>]

\* no listener is spawned and no caller is inside start_listener or stop_listener
InitNoSup ==
    /\ handles = [s \in Sources |-> 0]
    /\ tstate = [t \in Tasks |-> "none"]
    /\ tsrc = [t \in Tasks |-> "Zaps"]
    /\ tcancel = [t \in Tasks |-> FALSE]
    /\ configured = Sources
    /\ cpc = [c \in Callers |-> "idle"]
    /\ cname = [c \in Callers |-> "Zaps"]
    /\ cold = [c \in Callers |-> 0]
    /\ cstart = [c \in Callers |-> FALSE]
    /\ todo = << >>
    /\ ncmd = 0

\* no add call has been made outside the tracker's history, the mutex is free
\* and the effect sinks do not fail
InitAux ==
    /\ lock = "none"
    /\ sinks = {TRUE}
    /\ failed = {}
    /\ cutAt = [s \in Sources |-> ""]
    /\ sumAdded = tracker.total
    /\ lastRet = tracker.total
    /\ prevTotal = 0
    /\ nAdd = 0
    /\ rx = << >>
    /\ gui = 0
    /\ nsent = 0
    /\ tchan = [t \in Tasks |-> "tx"]
    /\ held = NoStatus
    /\ glog = << >>
    /\ sentTotal = << >>
    /\ firedMult = {<<th, tracker.last_triggered_multiple[th]>> :
                        th \in DOMAIN tracker.last_triggered_multiple}
    /\ fcase = NoCase

\* the producers are not modelled: nothing is published and no clock is read
InitNoLife ==
    /\ now = 0
    /\ store = [s \in Sources |-> << >>]
    /\ loadSince = [s \in Sources |-> NoTime]
    /\ since = [s \in Sources |-> 0]
    /\ queue = [s \in Sources |-> << >>]
    /\ subStart = 0
    /\ rcur = [s \in Sources |-> 0]
    /\ lastAt = NoTime
    /\ nwcMode = "listen"
    /\ status = [s \in Sources |-> "Running"]
    /\ addCount = [s \in Sources |-> << >>]
    /\ syncCount = [s \in Sources |-> 0]
    /\ liveStart = [s \in Sources |-> 0]
    /\ seed = [i \in 1..Len(toggles) |-> NoTime]
    /\ onceSeeded = [i \in 1..Len(toggles) |-> FALSE]

\* two listeners are live; Boostboard's backfill has added the base total and
\* synced the trigger state
InitLive ==
    /\ toggles = CfgBoth
    /\ \E b \in BaseTotals :
          tracker = SyncThresholdTriggers(
                        IF b = 0 THEN NewTracker
                        ELSE TrackerAdd(NewTracker, "Boostboard", b), CfgBoth)
    /\ pc = [s \in Sources |-> IF s = "NWC" THEN "stopped" ELSE "live"]
    /\ fireCount = [i \in 1..Len(CfgBoth) |-> 0]
    /\ InitTasks
    /\ InitNoLife
    /\ InitNoSup
    /\ InitAux

\* only Zaps is configured and live: its boosts are processed one after another
InitSeq ==
    /\ toggles = CfgSeq
    /\ tracker = NewTracker
    /\ pc = [s \in Sources |-> IF s = "Zaps" THEN "live" ELSE "stopped"]
    /\ fireCount = [i \in 1..Len(CfgSeq) |-> 0]
    /\ InitTasks
    /\ InitNoLife
    /\ InitNoSup
    /\ InitAux

\* only Zaps is configured and live, the toggles carry digit ranges and the
\* effect sinks can fail
InitTog ==
    /\ toggles = CfgTog
    /\ tracker = NewTracker
    /\ pc = [s \in Sources |-> IF s = "Zaps" THEN "live" ELSE "stopped"]
    /\ fireCount = [i \in 1..Len(CfgTog) |-> 0]
    /\ InitTasks
    /\ InitNoLife
    /\ InitNoSup
    /\ lock = "none"
    /\ sinks = BOOLEAN
    /\ failed = {}
    /\ cutAt = [s \in Sources |-> ""]
    /\ sumAdded = 0
    /\ lastRet = 0
    /\ prevTotal = 0
    /\ nAdd = 0
    /\ rx = << >>
    /\ gui = 0
    /\ nsent = 0
    /\ tchan = [t \in Tasks |-> "tx"]
    /\ held = NoStatus
    /\ glog = << >>
    /\ sentTotal = << >>
    /\ firedMult = {}
    /\ fcase = NoCase

\* the histories the producers hold when the listeners are spawned
InitStores == {<< >>, <<[ts |-> 0, sats |-> 3, action |-> "boost"]>>,
               <<[ts |-> 0, sats |-> 5, action |-> "boost"]>>}

\* the sets of sources the configuration file enables
ConfiguredSets == {c \in SUBSET Sources : Cardinality(c) = 1}

\* every configured listener has just been spawned by the startup task
Init ==
    /\ toggles = CfgBoth
    /\ tracker = NewTracker
    /\ \E c \in ConfiguredSets :
          pc = [s \in Sources |-> IF s \in c THEN "spawned" ELSE "stopped"]
    /\ fireCount = [i \in 1..Len(CfgBoth) |-> 0]
    /\ InitTasks
    /\ now = 1
    /\ \E h \in InitStores :
          store = [s \in Sources |-> IF pc[s] = "spawned" THEN h ELSE << >>]
    /\ \E l \in {NoTime, 0} : loadSince = [s \in Sources |-> l]
    /\ since = [s \in Sources |-> 0]
    /\ queue = [s \in Sources |-> << >>]
    /\ subStart = 0
    /\ rcur = [s \in Sources |-> 0]
    /\ lastAt = NoTime
    /\ nwcMode = "listen"
    /\ status = [s \in Sources |-> "Enabled"]
    /\ addCount = [s \in Sources |-> [i \in 1..Len(store[s]) |-> 0]]
    /\ syncCount = [s \in Sources |-> 0]
    /\ liveStart = [s \in Sources |-> 0]
    /\ seed = [i \in 1..Len(toggles) |-> NoTime]
    /\ onceSeeded = [i \in 1..Len(toggles) |-> FALSE]
    /\ InitNoSup
    /\ InitAux

NextLive == \E s \in Sources : LiveBoost(s) \/ ProcessBoost(s)

vars == <<coreVars, lifeVars, supVars, auxVars>>

SpecLive == InitLive /\ [][NextLive]_vars

SpecSeq == InitSeq /\ [][NextLive]_vars

SpecTog == InitTog /\ [][NextLive]_vars

\* only Zaps is configured and live, and two toggles share a threshold
InitSame ==
    /\ toggles = CfgSame
    /\ tracker = NewTracker
    /\ pc = [s \in Sources |-> IF s = "Zaps" THEN "live" ELSE "stopped"]
    /\ fireCount = [i \in 1..Len(CfgSame) |-> 0]
    /\ InitTasks
    /\ InitNoLife
    /\ InitNoSup
    /\ InitAux

SpecSame == InitSame /\ [][NextLive]_vars

\* the pages a producer can return to a backfill request, in the order it
\* returns them
Pages ==
    LET Ev == [ts : 0..MaxTime, sats : SatsValues, action : Actions]
    IN  UNION {[1..n -> Ev] : n \in 1..MaxEvents}

\* Boostboard or NWC has connected and requests its history; store holds the
\* page in the order the producer returns it
InitPage ==
    /\ toggles = CfgBoth
    /\ tracker = NewTracker
    /\ \E c \in {"Boostboard", "NWC"} :
          pc = [s \in Sources |-> IF s = c THEN "load" ELSE "stopped"]
    /\ fireCount = [i \in 1..Len(CfgBoth) |-> 0]
    /\ InitTasks
    /\ now = MaxTime
    /\ \E h \in Pages :
          store = [s \in Sources |-> IF pc[s] = "load" THEN h ELSE << >>]
    /\ loadSince = [s \in Sources |-> 0]
    /\ since = [s \in Sources |-> 0]
    /\ queue = [s \in Sources |-> << >>]
    /\ subStart = 0
    /\ rcur = [s \in Sources |-> 0]
    /\ lastAt = NoTime
    /\ nwcMode = "listen"
    /\ status = [s \in Sources |-> IF pc[s] = "load" THEN "Running" ELSE "Enabled"]
    /\ addCount = [s \in Sources |-> [i \in 1..Len(store[s]) |-> 0]]
    /\ syncCount = [s \in Sources |-> 0]
    /\ liveStart = [s \in Sources |-> 0]
    /\ seed = [i \in 1..Len(toggles) |-> NoTime]
    /\ onceSeeded = [i \in 1..Len(toggles) |-> FALSE]
    /\ InitNoSup
    /\ InitAux

NextPage ==
    \E s \in Sources :
       Load(s) \/ Backfill(s) \/ PbAdd(s) \/ PbSendTotal(s) \/ PbReport(s) \/ Sync(s)

SpecPage == InitPage /\ [][NextPage]_vars

(***************************************************************************)
(* The filter decision on its own: BoostFilters and a boost are drawn from *)
(* bounded sets and the places that filter boosts decide.                  *)
(***************************************************************************)
\* the podcast names: the strings of at most MaxStr characters
Names == UNION {[1..n -> {"a", "A", "b"}] : n \in 0..MaxStr}
Guids == {"", "g1", "G1"}

\* the values of filters.podcasts, filters.episode_guids, filters.event_guids
PodcastLists == {None, Some(<< >>), Some(<< <<"a">> >>), Some(<< <<"A", "b">> >>),
                 Some(<< <<"b">>, <<"A">> >>), Some(<< << >> >>)}
GuidLists == {None, Some(<< >>), Some(<<"g1">>), Some(<<"", "G1">>)}

\* the optional before and after bounds
TimeBounds == {NoTime} \cup 0..MaxTime

\* no listener runs; only the filter decision is taken
InitIdle ==
    /\ toggles = CfgBoth
    /\ tracker = NewTracker
    /\ pc = [s \in Sources |-> "stopped"]
    /\ fireCount = [i \in 1..Len(CfgBoth) |-> 0]
    /\ InitTasks
    /\ InitNoLife
    /\ InitNoSup
    /\ lock = "none"
    /\ sinks = {TRUE}
    /\ failed = {}
    /\ cutAt = [s \in Sources |-> ""]
    /\ sumAdded = 0
    /\ lastRet = 0
    /\ prevTotal = 0
    /\ nAdd = 0
    /\ rx = << >>
    /\ gui = 0
    /\ nsent = 0
    /\ tchan = [t \in Tasks |-> "tx"]
    /\ held = NoStatus
    /\ glog = << >>
    /\ sentTotal = << >>
    /\ firedMult = {}

\* any content filters and any boost; no timestamp bound
InitMatch ==
    /\ InitIdle
    /\ fcase \in [f : [podcasts : PodcastLists, episode_guids : GuidLists,
                        event_guids : GuidLists, after : {NoTime}, before : {NoTime}],
                   boost : [podcast : Names, episode_guid : Guids, event_guid : Guids],
                   ts : {0}, path : {""}, res : {"none"}]

\* matches_boost is applied to the boost
MatchContent ==
    /\ fcase.res = "none"
    /\ fcase' = [fcase EXCEPT !.path = "matches_boost",
                              !.res = IF MatchesBoost(fcase.f, fcase.boost)
                                      THEN "accept" ELSE "reject"]
    /\ UNCHANGED <<coreVars, lifeVars, supVars>>
    /\ UNCHANGED <<lock, sinks, failed, cutAt, sumAdded, lastRet, prevTotal, nAdd,
                   rx, gui, nsent, firedMult, tchan, held, glog, sentTotal>>

SpecMatch == InitMatch /\ [][MatchContent]_vars

\* the places that apply BoostFilters to a boost: the Boostboard backfill and
\* live handler, the NWC backfill, notification listener and poller
FilterPaths == {"process_boosts", "handle_boosts", "load_previous_boosts",
                "listen_for_boosts", "poll_boosts"}

\* the filter test of each place: handle_boosts returns on the timestamp
\* first and tests the content after parsing, the others test both at once
Accepts(path, f, boost, ts) ==
    IF path = "handle_boosts"
    THEN IF ~ MatchesTimestamp(f, ts) THEN FALSE ELSE MatchesBoost(f, boost)
    ELSE MatchesTimestamp(f, ts) /\ MatchesBoost(f, boost)

\* any timestamp bounds and timestamp, with and without a podcast filter
InitAccept ==
    /\ InitIdle
    /\ fcase \in [f : [podcasts : {None, Some(<< <<"a">> >>)}, episode_guids : {None},
                        event_guids : {None}, after : TimeBounds, before : TimeBounds],
                   boost : [podcast : {<<"A">>, <<"b">>}, episode_guid : {""},
                            event_guid : {""}],
                   ts : 0..MaxTime, path : {""}, res : {"none"}]

\* one of the places filters the boost
ApplyFilters ==
    /\ fcase.res = "none"
    /\ \E path \in FilterPaths :
          fcase' = [fcase EXCEPT !.path = path,
                                 !.res = IF Accepts(path, fcase.f, fcase.boost, fcase.ts)
                                         THEN "accept" ELSE "reject"]
    /\ UNCHANGED <<coreVars, lifeVars, supVars>>
    /\ UNCHANGED <<lock, sinks, failed, cutAt, sumAdded, lastRet, prevTotal, nAdd,
                   rx, gui, nsent, firedMult, tchan, held, glog, sentTotal>>

SpecAccept == InitAccept /\ [][ApplyFilters]_vars

(***************************************************************************)
(* Stop and start of a source over one tracker: a listener that has gone   *)
(* live is cancelled and start_listener spawns a new task for the source.  *)
(***************************************************************************)
\* start_listener for a source whose task was cancelled by stop_listener: a
\* new task is spawned with a fresh token; the tracker is the same Arc
Restart(s) ==
    /\ pc[s] = "done"
    /\ cutAt[s] # ""
    /\ ncmd < MaxCmds
    /\ ncmd' = ncmd + 1
    /\ pc' = [pc EXCEPT ![s] = "spawned"]
    /\ cutAt' = [cutAt EXCEPT ![s] = ""]
    /\ UNCHANGED <<toggles, tracker, cur, ti, anyTrig, ret, preAdd, dec, fireCount,
                   dispatched, nLive, log>>
    /\ UNCHANGED lifeVars
    /\ UNCHANGED <<handles, tstate, tsrc, tcancel, configured, cpc, cname, cold,
                   cstart, todo>>
    /\ UNCHANGED <<lock, sinks, failed, sumAdded, lastRet, prevTotal, nAdd, rx, gui,
                   nsent, firedMult, fcase, tchan, held, glog, sentTotal>>

\* Boostboard or NWC is configured, its producer holds one historical boost,
\* and the listener has just been spawned
InitRestart ==
    /\ toggles = CfgBoth
    /\ tracker = NewTracker
    /\ \E c \in {"Boostboard", "NWC"} :
          pc = [s \in Sources |-> IF s = c THEN "spawned" ELSE "stopped"]
    /\ fireCount = [i \in 1..Len(CfgBoth) |-> 0]
    /\ InitTasks
    /\ now = 1
    /\ \E h \in InitStores \ {<< >>} :
          store = [s \in Sources |-> IF pc[s] = "spawned" THEN h ELSE << >>]
    /\ \E l \in {NoTime, 0} : loadSince = [s \in Sources |-> l]
    /\ since = [s \in Sources |-> 0]
    /\ queue = [s \in Sources |-> << >>]
    /\ subStart = 0
    /\ rcur = [s \in Sources |-> 0]
    /\ lastAt = NoTime
    /\ nwcMode = "listen"
    /\ status = [s \in Sources |-> "Enabled"]
    /\ addCount = [s \in Sources |-> [i \in 1..Len(store[s]) |-> 0]]
    /\ syncCount = [s \in Sources |-> 0]
    /\ liveStart = [s \in Sources |-> 0]
    /\ seed = [i \in 1..Len(toggles) |-> NoTime]
    /\ onceSeeded = [i \in 1..Len(toggles) |-> FALSE]
    /\ InitNoSup
    /\ InitAux

NextRestart ==
    \/ Tick
    \/ \E s \in Sources :
          \/ Initialize(s) \/ Connect(s) \/ Load(s) \/ Backfill(s) \/ Sync(s)
          \/ Subscribe(s) \/ Cancel(s) \/ Restart(s)
          \/ PbAdd(s) \/ PbSendTotal(s) \/ PbReport(s)

SpecRestart == InitRestart /\ [][NextRestart]_vars

\* Boostboard is live and delivers boostagrams of any amount while the NWC
\* listener, started later, reaches sync_threshold_triggers
InitDup ==
    /\ toggles = CfgDup
    /\ tracker = NewTracker
    /\ pc = [s \in Sources |-> IF s = "Boostboard" THEN "live"
                               ELSE IF s = "NWC" THEN "sync" ELSE "stopped"]
    /\ fireCount = [i \in 1..Len(CfgDup) |-> 0]
    /\ InitTasks
    /\ InitNoLife
    /\ InitNoSup
    /\ InitAux

NextDup == \E s \in Sources : LiveBoost(s) \/ ProcessBoost(s) \/ Sync(s)

SpecDup == InitDup /\ [][NextDup]_vars

Next ==
    \/ Tick
    \/ \E s \in Sources : Produce(s)
    \/ \E s \in Sources : Listener(s)
    \/ \E s \in Sources : ProcessBoost(s)

Spec == Init /\ [][Next]_vars

(***************************************************************************)
(* The lifecycle with the ways a listener task can end: an unvalidated     *)
(* configuration (threshold 0 on a use_total toggle) and an event stream   *)
(* that ends.                                                              *)
(***************************************************************************)
EndConfigs == {CfgBoth, CfgZero, CfgUse}

InitEnd ==
    /\ toggles \in EndConfigs
    /\ tracker = NewTracker
    /\ \E c \in ConfiguredSets :
          pc = [s \in Sources |-> IF s \in c THEN "spawned" ELSE "stopped"]
    /\ fireCount = [i \in 1..Len(toggles) |-> 0]
    /\ InitTasks
    /\ now = 1
    /\ \E h \in InitStores :
          store = [s \in Sources |-> IF pc[s] = "spawned" THEN h ELSE << >>]
    /\ loadSince = [s \in Sources |-> 0]
    /\ since = [s \in Sources |-> 0]
    /\ queue = [s \in Sources |-> << >>]
    /\ subStart = 0
    /\ rcur = [s \in Sources |-> 0]
    /\ lastAt = NoTime
    /\ nwcMode = "listen"
    /\ status = [s \in Sources |-> "Enabled"]
    /\ addCount = [s \in Sources |-> [i \in 1..Len(store[s]) |-> 0]]
    /\ syncCount = [s \in Sources |-> 0]
    /\ liveStart = [s \in Sources |-> 0]
    /\ seed = [i \in 1..Len(toggles) |-> NoTime]
    /\ onceSeeded = [i \in 1..Len(toggles) |-> FALSE]
    /\ InitNoSup
    /\ InitAux

NextEnd ==
    \/ Tick
    \/ \E s \in Sources : Produce(s)
    \/ \E s \in Sources : Listener(s)
    \/ \E s \in Sources : ProcessBoost(s)
    \/ \E s \in Sources : SyncPanic(s)
    \/ \E s \in Sources : StreamEnd(s)

SpecEnd == InitEnd /\ [][NextEnd]_vars

(***************************************************************************)
(* Two live listeners whose event streams can fail: Zaps is task 1 and     *)
(* Boostboard task 2, both handles are stored and the control loop idles.  *)
(***************************************************************************)
InitErr ==
    /\ toggles = CfgMult
    /\ tracker = NewTracker
    /\ pc = [s \in Sources |-> IF s = "NWC" THEN "stopped" ELSE "live"]
    /\ fireCount = [i \in 1..Len(CfgMult) |-> 0]
    /\ InitTasks
    /\ InitNoLife
    /\ handles = [s \in Sources |->
                    IF s = "Zaps" THEN 1 ELSE IF s = "Boostboard" THEN 2 ELSE 0]
    /\ tstate = [t \in Tasks |-> IF t <= 2 THEN "live" ELSE "none"]
    /\ tsrc = [t \in Tasks |-> IF t = 2 THEN "Boostboard" ELSE "Zaps"]
    /\ tcancel = [t \in Tasks |-> FALSE]
    /\ configured = {"Zaps", "Boostboard"}
    /\ cpc = [c \in Callers |-> "idle"]
    /\ cname = [c \in Callers |-> "Zaps"]
    /\ cold = [c \in Callers |-> 0]
    /\ cstart = [c \in Callers |-> FALSE]
    /\ todo = << >>
    /\ ncmd = 0
    /\ InitAux

NextErr ==
    \/ \E s \in Sources : LiveBoost(s)
    \/ \E s \in Sources : ProcessBoost(s)
    \/ \E s \in Sources : StreamFail(s)

SpecErr == InitErr /\ [][NextErr]_vars

(***************************************************************************)
(* The tracker on its own: add is called with any source and any i64       *)
(* amount a boostagram can carry.                                          *)
(***************************************************************************)
\* the sats of the add calls: Boostagram.sats is an i64 read from the wire
AddSats == {-1, 0, 1, 2}

\* one call of SatTracker::add under the lock
AddCall ==
    /\ nAdd < MaxAdds
    /\ lock = "none"
    /\ \E s \in Sources, sats \in AddSats :
          /\ tracker' = TrackerAdd(tracker, s, sats)
          /\ lastRet' = AddReturn(tracker, s, sats)
          /\ sumAdded' = sumAdded + sats
    /\ prevTotal' = tracker.total
    /\ nAdd' = nAdd + 1
    /\ UNCHANGED <<toggles, pc, cur, ti, anyTrig, ret, preAdd, dec, fireCount,
                   dispatched, nLive, log>>
    /\ UNCHANGED lifeVars
    /\ UNCHANGED supVars
    /\ UNCHANGED <<lock, sinks, failed, cutAt, rx, gui, nsent, firedMult, fcase, tchan, held, glog, sentTotal>>

\* a new tracker and no listener
InitAdd ==
    /\ toggles = CfgMult
    /\ tracker = NewTracker
    /\ pc = [s \in Sources |-> "stopped"]
    /\ fireCount = [i \in 1..Len(CfgMult) |-> 0]
    /\ InitTasks
    /\ InitNoLife
    /\ InitNoSup
    /\ InitAux

NextAdd == AddCall

SpecAdd == InitAdd /\ [][NextAdd]_vars

\* the sum of the values of the map m over the keys S
RECURSIVE SumOver(_, _)
SumOver(m, S) ==
    IF S = {} THEN 0
    ELSE LET k == CHOOSE x \in S : TRUE
         IN  m[k] + SumOver(m, S \ {k})

\* C14: after every add call, from any source, the total is not smaller than
\* before the call, equals the sum of all sats added so far, is the value the
\* call returned and equals the sum of the by_source subtotals.
C14_TotalMonotonicSum ==
    /\ tracker.total >= prevTotal
    /\ tracker.total = sumAdded
    /\ lastRet = tracker.total
    /\ SumOver(tracker.by_source, DOMAIN tracker.by_source) = tracker.total

(***************************************************************************)
(* The listener supervisor: start_listener and stop_listener, called by    *)
(* the startup task and by the control loop.  A listener task is reduced   *)
(* to its phases.                                                          *)
(***************************************************************************)
\* the order in which the startup task starts the listeners
StartOrder == <<"Zaps", "Boostboard", "NWC">>

Live(t) == tstate[t] \in {"pre", "live"}

\* the startup task calls start_listener for its next configured source
StartupCall ==
    /\ cpc["startup"] = "idle"
    /\ todo # << >>
    /\ todo' = Tail(todo)
    /\ IF Head(todo) \in configured
       THEN /\ cpc' = [cpc EXCEPT !["startup"] = "stop"]
            /\ cname' = [cname EXCEPT !["startup"] = Head(todo)]
            /\ cstart' = [cstart EXCEPT !["startup"] = TRUE]
       ELSE UNCHANGED <<cpc, cname, cstart>>
    /\ UNCHANGED <<handles, tstate, tsrc, tcancel, configured, cold, ncmd>>
    /\ UNCHANGED coreVars
    /\ UNCHANGED lifeVars
    /\ UNCHANGED auxVars

\* the control loop receives StartListener(name) or StopListener(name)
ControlCall ==
    /\ cpc["control"] = "idle"
    /\ ncmd < MaxCmds
    /\ ncmd' = ncmd + 1
    /\ \E name \in Sources, start \in BOOLEAN :
          /\ cname' = [cname EXCEPT !["control"] = name]
          /\ cstart' = [cstart EXCEPT !["control"] = start]
    /\ cpc' = [cpc EXCEPT !["control"] = "stop"]
    /\ UNCHANGED <<handles, tstate, tsrc, tcancel, configured, cold, todo>>
    /\ UNCHANGED coreVars
    /\ UNCHANGED lifeVars
    /\ UNCHANGED auxVars

\* where a caller goes when stop_listener returns
AfterStop(c) == IF cstart[c] THEN "spawn" ELSE "idle"

\* stop_listener: the handle is removed and its token cancelled under the lock
StopRemove(c) ==
    /\ cpc[c] = "stop"
    /\ IF handles[cname[c]] # 0
       THEN /\ cold' = [cold EXCEPT ![c] = handles[cname[c]]]
            /\ handles' = [handles EXCEPT ![cname[c]] = 0]
            /\ tcancel' = [tcancel EXCEPT ![handles[cname[c]]] = TRUE]
            /\ cpc' = [cpc EXCEPT ![c] = "join"]
       ELSE /\ cpc' = [cpc EXCEPT ![c] = AfterStop(c)]
            /\ UNCHANGED <<cold, handles, tcancel>>
    /\ UNCHANGED <<tstate, tsrc, configured, cname, cstart, todo, ncmd>>
    /\ UNCHANGED coreVars
    /\ UNCHANGED lifeVars
    /\ UNCHANGED auxVars

\* the bounded join returns because the task has finished
JoinDone(c) ==
    /\ cpc[c] = "join"
    /\ tstate[cold[c]] = "done"
    /\ cpc' = [cpc EXCEPT ![c] = AfterStop(c)]
    /\ cold' = [cold EXCEPT ![c] = 0]
    /\ UNCHANGED <<handles, tstate, tsrc, tcancel, configured, cname, cstart, todo, ncmd>>
    /\ UNCHANGED coreVars
    /\ UNCHANGED lifeVars
    /\ UNCHANGED auxVars

\* a plausible slip: after a timeout the handle of the running task is stored again
JoinTimeoutMut(c) ==
    /\ cpc[c] = "join"
    /\ tstate[cold[c]] # "done"
    /\ cpc' = [cpc EXCEPT ![c] = AfterStop(c)]
    /\ handles' = [handles EXCEPT ![cname[c]] = cold[c]]
    /\ cold' = [cold EXCEPT ![c] = 0]
    /\ UNCHANGED <<tstate, tsrc, tcancel, configured, cname, cstart, todo, ncmd>>
    /\ UNCHANGED coreVars
    /\ UNCHANGED lifeVars
    /\ UNCHANGED auxVars

\* the bounded join times out: the JoinHandle is dropped, the task runs on
JoinTimeout(c) ==
    /\ cpc[c] = "join"
    /\ tstate[cold[c]] # "done"
    /\ cpc' = [cpc EXCEPT ![c] = AfterStop(c)]
    /\ cold' = [cold EXCEPT ![c] = 0]
    /\ UNCHANGED <<handles, tstate, tsrc, tcancel, configured, cname, cstart, todo, ncmd>>
    /\ UNCHANGED coreVars
    /\ UNCHANGED lifeVars
    /\ UNCHANGED auxVars

\* the sender start_listener is called with: the startup task passes its
\* tx_clone, the control loop passes gui_tx
SenderOf(c) == IF c = "startup" THEN "tx" ELSE "gui"

\* the task start_listener spawns: the first one not spawned yet
FreeTask == CHOOSE t \in Tasks : tstate[t] = "none" /\ \A u \in Tasks : tstate[u] = "none" => t <= u

\* start_listener: a new token, and the task is spawned unless the source is
\* not configured
Spawn(c) ==
    /\ cpc[c] = "spawn"
    /\ IF cname[c] \in configured
       THEN /\ \E t \in Tasks : tstate[t] = "none"
            /\ tstate' = [tstate EXCEPT ![FreeTask] = "pre"]
            /\ tsrc' = [tsrc EXCEPT ![FreeTask] = cname[c]]
            /\ tchan' = [tchan EXCEPT ![FreeTask] = SenderOf(c)]
            /\ cold' = [cold EXCEPT ![c] = FreeTask]
            /\ cpc' = [cpc EXCEPT ![c] = "insert"]
       ELSE /\ cpc' = [cpc EXCEPT ![c] = "idle"]
            /\ UNCHANGED <<tstate, tsrc, cold, tchan>>
    /\ UNCHANGED <<handles, tcancel, configured, cname, cstart, todo, ncmd>>
    /\ UNCHANGED coreVars
    /\ UNCHANGED lifeVars
    /\ UNCHANGED <<lock, sinks, failed, cutAt, sumAdded, lastRet, prevTotal, nAdd, rx, gui,
                   nsent, firedMult, fcase, held, glog, sentTotal>>

\* start_listener: the new (handle, token) is inserted under the lock
Insert(c) ==
    /\ cpc[c] = "insert"
    /\ handles' = [handles EXCEPT ![cname[c]] = cold[c]]
    /\ cold' = [cold EXCEPT ![c] = 0]
    /\ cpc' = [cpc EXCEPT ![c] = "idle"]
    /\ UNCHANGED <<tstate, tsrc, tcancel, configured, cname, cstart, todo, ncmd>>
    /\ UNCHANGED coreVars
    /\ UNCHANGED lifeVars
    /\ UNCHANGED auxVars

\* a listener task reaches its select!
TaskGoesLive(t) ==
    /\ tstate[t] = "pre"
    /\ tstate' = [tstate EXCEPT ![t] = "live"]
    /\ UNCHANGED <<handles, tsrc, tcancel, configured, cpc, cname, cold, cstart, todo, ncmd>>
    /\ UNCHANGED coreVars
    /\ UNCHANGED lifeVars
    /\ UNCHANGED auxVars

\* a listener task ends on a connection, subscription or stream error
TaskFails(t) ==
    /\ Live(t)
    /\ tstate' = [tstate EXCEPT ![t] = "done"]
    /\ UNCHANGED <<handles, tsrc, tcancel, configured, cpc, cname, cold, cstart, todo, ncmd>>
    /\ UNCHANGED coreVars
    /\ UNCHANGED lifeVars
    /\ UNCHANGED auxVars

\* a listener task in its select! sees its token cancelled and ends
TaskCancelled(t) ==
    /\ tstate[t] = "live"
    /\ tcancel[t]
    /\ tstate' = [tstate EXCEPT ![t] = "done"]
    /\ UNCHANGED <<handles, tsrc, tcancel, configured, cpc, cname, cold, cstart, todo, ncmd>>
    /\ UNCHANGED coreVars
    /\ UNCHANGED lifeVars
    /\ UNCHANGED auxVars

\* main has spawned the startup task and the control loop
InitSup ==
    /\ toggles = CfgMult
    /\ tracker = NewTracker
    /\ pc = [s \in Sources |-> "stopped"]
    /\ fireCount = [i \in 1..Len(CfgMult) |-> 0]
    /\ InitTasks
    /\ InitNoLife
    /\ handles = [s \in Sources |-> 0]
    /\ tstate = [t \in Tasks |-> "none"]
    /\ tsrc = [t \in Tasks |-> "Zaps"]
    /\ tcancel = [t \in Tasks |-> FALSE]
    /\ configured = {"Zaps", "Boostboard"}
    /\ cpc = [c \in Callers |-> "idle"]
    /\ cname = [c \in Callers |-> "Zaps"]
    /\ cold = [c \in Callers |-> 0]
    /\ cstart = [c \in Callers |-> FALSE]
    /\ todo = StartOrder
    /\ ncmd = 0
    /\ InitAux

NextSup ==
    \/ StartupCall
    \/ ControlCall
    \/ \E c \in Callers : StopRemove(c)
    \/ \E c \in Callers : JoinDone(c)
    \/ \E c \in Callers : JoinTimeout(c)
    \/ \E c \in Callers : Spawn(c)
    \/ \E c \in Callers : Insert(c)
    \/ \E t \in Tasks : TaskGoesLive(t)
    \/ \E t \in Tasks : TaskFails(t)
    \/ \E t \in Tasks : TaskCancelled(t)

SpecSup == InitSup /\ [][NextSup]_vars

\* C1: in every reachable state, under every interleaving of start and stop
\* calls of the startup task and the control loop (a stop whose bounded join
\* times out included), at most one live listener task exists per source id.
C1_AtMostOneLiveListener ==
    \A s \in Sources : Cardinality({t \in Tasks : Live(t) /\ tsrc[t] = s}) <= 1

(***************************************************************************)
(* The control loop on its own: the startup task has started the one       *)
(* configured listener and returned.                                       *)
(***************************************************************************)
InitCtl ==
    /\ toggles = CfgMult
    /\ tracker = NewTracker
    /\ pc = [s \in Sources |-> "stopped"]
    /\ fireCount = [i \in 1..Len(CfgMult) |-> 0]
    /\ InitTasks
    /\ InitNoLife
    /\ handles = [s \in Sources |-> IF s = "Zaps" THEN 1 ELSE 0]
    /\ tstate = [t \in Tasks |-> IF t = 1 THEN "pre" ELSE "none"]
    /\ tsrc = [t \in Tasks |-> "Zaps"]
    /\ tcancel = [t \in Tasks |-> FALSE]
    /\ configured = {"Zaps"}
    /\ cpc = [c \in Callers |-> "idle"]
    /\ cname = [c \in Callers |-> "Zaps"]
    /\ cold = [c \in Callers |-> 0]
    /\ cstart = [c \in Callers |-> FALSE]
    /\ todo = << >>
    /\ ncmd = 0
    /\ InitAux

NextCtl ==
    \/ ControlCall
    \/ \E c \in Callers : StopRemove(c)
    \/ \E c \in Callers : JoinDone(c)
    \/ \E c \in Callers : JoinTimeout(c)
    \/ \E c \in Callers : Spawn(c)
    \/ \E c \in Callers : Insert(c)
    \/ \E t \in Tasks : TaskGoesLive(t)
    \/ \E t \in Tasks : TaskFails(t)
    \/ \E t \in Tasks : TaskCancelled(t)

SpecCtl == InitCtl /\ [][NextCtl]_vars


\* stop_listener's lock is granted and its timeout(5 s, handle) returns
StopFairness ==
    \A c \in Callers :
       /\ WF_vars(StopRemove(c))
       /\ WF_vars(JoinDone(c) \/ JoinTimeout(c))

SpecCtlFair == InitCtl /\ [][NextCtl]_vars /\ StopFairness

(***************************************************************************)
(* The control loop with its two channels: it reads rx, runs start and     *)
(* stop commands and forwards every other message to the observer channel, *)
(* which the GUI drains when it repaints.                                  *)
(***************************************************************************)
\* the GUI sends a start or stop command with try_send
GuiCommand ==
    /\ nsent < MaxCmds
    /\ Len(rx) < ChanCap
    /\ \E name \in {"Zaps"}, start \in BOOLEAN :
          rx' = Append(rx, [kind |-> IF start THEN "Start" ELSE "Stop", name |-> name])
    /\ nsent' = nsent + 1
    /\ UNCHANGED coreVars
    /\ UNCHANGED lifeVars
    /\ UNCHANGED supVars
    /\ UNCHANGED <<lock, sinks, failed, cutAt, sumAdded, lastRet, prevTotal, nAdd, gui, firedMult, fcase, tchan, held, glog, sentTotal>>

\* a listener started by the startup task sends a status or a boost report
ListenerReport ==
    /\ Len(rx) < ChanCap
    /\ \E t \in Tasks : Live(t)
    /\ rx' = Append(rx, [kind |-> "Report", name |-> "Zaps"])
    /\ UNCHANGED coreVars
    /\ UNCHANGED lifeVars
    /\ UNCHANGED supVars
    /\ UNCHANGED <<lock, sinks, failed, cutAt, sumAdded, lastRet, prevTotal, nAdd,
                   gui, nsent, firedMult, fcase, tchan, held, glog, sentTotal>>

\* rx.recv() returns the next message: a command starts start_listener or
\* stop_listener, any other message is to be forwarded
ControlRecv ==
    /\ cpc["control"] = "idle"
    /\ rx # << >>
    /\ rx' = Tail(rx)
    /\ IF Head(rx).kind = "Report"
       THEN /\ cpc' = [cpc EXCEPT !["control"] = "fwd"]
            /\ UNCHANGED <<cname, cstart, ncmd>>
       ELSE /\ cpc' = [cpc EXCEPT !["control"] = "stop"]
            /\ cname' = [cname EXCEPT !["control"] = Head(rx).name]
            /\ cstart' = [cstart EXCEPT !["control"] = (Head(rx).kind = "Start")]
            /\ ncmd' = ncmd + 1
    /\ UNCHANGED <<handles, tstate, tsrc, tcancel, configured, cold, todo>>
    /\ UNCHANGED coreVars
    /\ UNCHANGED lifeVars
    /\ UNCHANGED <<lock, sinks, failed, cutAt, sumAdded, lastRet, prevTotal, nAdd, gui, nsent, firedMult, fcase, tchan, held, glog, sentTotal>>

\* gui_tx.send(other).await completes once the observer channel has room
Forward ==
    /\ cpc["control"] = "fwd"
    /\ gui < ChanCap
    /\ gui' = gui + 1
    /\ cpc' = [cpc EXCEPT !["control"] = "idle"]
    /\ UNCHANGED <<handles, tstate, tsrc, tcancel, configured, cname, cold, cstart,
                   todo, ncmd>>
    /\ UNCHANGED coreVars
    /\ UNCHANGED lifeVars
    /\ UNCHANGED <<lock, sinks, failed, cutAt, sumAdded, lastRet, prevTotal, nAdd, rx, nsent, firedMult, fcase, tchan, held, glog, sentTotal>>

\* the GUI takes a message from the observer channel when it repaints
ObserverDrain ==
    /\ gui > 0
    /\ gui' = gui - 1
    /\ UNCHANGED coreVars
    /\ UNCHANGED lifeVars
    /\ UNCHANGED supVars
    /\ UNCHANGED <<lock, sinks, failed, cutAt, sumAdded, lastRet, prevTotal, nAdd, rx, nsent, firedMult, fcase, tchan, held, glog, sentTotal>>

\* the startup task has started Zaps; the observer channel holds any number
\* of messages
InitFwd ==
    /\ toggles = CfgMult
    /\ tracker = NewTracker
    /\ pc = [s \in Sources |-> "stopped"]
    /\ fireCount = [i \in 1..Len(CfgMult) |-> 0]
    /\ InitTasks
    /\ InitNoLife
    /\ handles = [s \in Sources |-> IF s = "Zaps" THEN 1 ELSE 0]
    /\ tstate = [t \in Tasks |-> IF t = 1 THEN "pre" ELSE "none"]
    /\ tsrc = [t \in Tasks |-> "Zaps"]
    /\ tcancel = [t \in Tasks |-> FALSE]
    /\ configured = {"Zaps"}
    /\ cpc = [c \in Callers |-> "idle"]
    /\ cname = [c \in Callers |-> "Zaps"]
    /\ cold = [c \in Callers |-> 0]
    /\ cstart = [c \in Callers |-> FALSE]
    /\ todo = << >>
    /\ ncmd = 0
    /\ lock = "none"
    /\ sinks = {TRUE}
    /\ failed = {}
    /\ cutAt = [s \in Sources |-> ""]
    /\ sumAdded = 0
    /\ lastRet = 0
    /\ prevTotal = 0
    /\ nAdd = 0
    /\ rx = << >>
    /\ gui \in 0..ChanCap
    /\ nsent = 0
    /\ tchan = [t \in Tasks |-> "tx"]
    /\ held = NoStatus
    /\ glog = << >>
    /\ sentTotal = << >>
    /\ firedMult = {}
    /\ fcase = NoCase

NextFwd ==
    \/ GuiCommand
    \/ ListenerReport
    \/ ControlRecv
    \/ Forward
    \/ ObserverDrain
    \/ \E c \in Callers : StopRemove(c)
    \/ \E c \in Callers : JoinDone(c)
    \/ \E c \in Callers : JoinTimeout(c)
    \/ \E c \in Callers : Spawn(c)
    \/ \E c \in Callers : Insert(c)
    \/ \E t \in Tasks : TaskGoesLive(t)
    \/ \E t \in Tasks : TaskFails(t)
    \/ \E t \in Tasks : TaskCancelled(t)

\* the control loop is scheduled: it takes the next message, its sends
\* complete when the channel has room, its lock requests are granted and its
\* bounded join returns
ControlFairness ==
    /\ WF_vars(ControlRecv)
    /\ WF_vars(Forward)
    /\ StopFairness
    /\ \A c \in Callers : WF_vars(Spawn(c)) /\ WF_vars(Insert(c))

SpecFwd == InitFwd /\ [][NextFwd]_vars /\ ControlFairness

(***************************************************************************)
(* The status reports of a listener that the control loop replaces.  The   *)
(* startup task has started Zaps with its own sender and returned; the     *)
(* control loop starts and stops listeners with gui_tx.                    *)
(***************************************************************************)
\* UpdateStatus(name, status) as task t sends it
StatusMsg(t, st) == [kind |-> "Status", name |-> tsrc[t], status |-> st, task |-> t]

\* initialize_listener: the task sends UpdateStatus(name, Running) on the
\* sender it was spawned with, then goes on to connect
TaskInit(t) ==
    /\ tstate[t] = "pre"
    /\ IF tchan[t] = "tx"
       THEN /\ Len(rx) < ChanCap
            /\ rx' = Append(rx, StatusMsg(t, "Running"))
            /\ UNCHANGED glog
       ELSE /\ glog' = Append(glog, StatusMsg(t, "Running"))
            /\ UNCHANGED rx
    /\ tstate' = [tstate EXCEPT ![t] = "conn"]
    /\ UNCHANGED <<handles, tsrc, tcancel, configured, cpc, cname, cold, cstart, todo, ncmd>>
    /\ UNCHANGED coreVars
    /\ UNCHANGED lifeVars
    /\ UNCHANGED <<lock, sinks, failed, cutAt, sumAdded, lastRet, prevTotal, nAdd, gui,
                   nsent, firedMult, fcase, tchan, held, sentTotal>>

\* the task has connected and reaches its select!
TaskConnects(t) ==
    /\ tstate[t] = "conn"
    /\ tstate' = [tstate EXCEPT ![t] = "live"]
    /\ UNCHANGED <<handles, tsrc, tcancel, configured, cpc, cname, cold, cstart, todo, ncmd>>
    /\ UNCHANGED coreVars
    /\ UNCHANGED lifeVars
    /\ UNCHANGED auxVars

\* the task in its select! sees its token cancelled, sends
\* UpdateStatus(name, Disabled) on its sender and ends
TaskStops(t) ==
    /\ tstate[t] = "live"
    /\ tcancel[t]
    /\ IF tchan[t] = "tx"
       THEN /\ Len(rx) < ChanCap
            /\ rx' = Append(rx, StatusMsg(t, "Disabled"))
            /\ UNCHANGED glog
       ELSE /\ glog' = Append(glog, StatusMsg(t, "Disabled"))
            /\ UNCHANGED rx
    /\ tstate' = [tstate EXCEPT ![t] = "done"]
    /\ UNCHANGED <<handles, tsrc, tcancel, configured, cpc, cname, cold, cstart, todo, ncmd>>
    /\ UNCHANGED coreVars
    /\ UNCHANGED lifeVars
    /\ UNCHANGED <<lock, sinks, failed, cutAt, sumAdded, lastRet, prevTotal, nAdd, gui,
                   nsent, firedMult, fcase, tchan, held, sentTotal>>

\* rx.recv() returns the next message: a command starts start_listener or
\* stop_listener, a status is kept to be forwarded
StatusRecv ==
    /\ cpc["control"] = "idle"
    /\ rx # << >>
    /\ rx' = Tail(rx)
    /\ IF Head(rx).kind = "Status"
       THEN /\ cpc' = [cpc EXCEPT !["control"] = "fwd"]
            /\ held' = Head(rx)
            /\ UNCHANGED <<cname, cstart, ncmd>>
       ELSE /\ cpc' = [cpc EXCEPT !["control"] = "stop"]
            /\ cname' = [cname EXCEPT !["control"] = Head(rx).name]
            /\ cstart' = [cstart EXCEPT !["control"] = (Head(rx).kind = "Start")]
            /\ ncmd' = ncmd + 1
            /\ UNCHANGED held
    /\ UNCHANGED <<handles, tstate, tsrc, tcancel, configured, cold, todo>>
    /\ UNCHANGED coreVars
    /\ UNCHANGED lifeVars
    /\ UNCHANGED <<lock, sinks, failed, cutAt, sumAdded, lastRet, prevTotal, nAdd, gui,
                   nsent, firedMult, fcase, tchan, glog, sentTotal>>

\* gui_tx.send(other).await: the status is passed on to the observer
StatusForward ==
    /\ cpc["control"] = "fwd"
    /\ glog' = Append(glog, held)
    /\ held' = NoStatus
    /\ cpc' = [cpc EXCEPT !["control"] = "idle"]
    /\ UNCHANGED <<handles, tstate, tsrc, tcancel, configured, cname, cold, cstart,
                   todo, ncmd>>
    /\ UNCHANGED coreVars
    /\ UNCHANGED lifeVars
    /\ UNCHANGED <<lock, sinks, failed, cutAt, sumAdded, lastRet, prevTotal, nAdd, rx, gui,
                   nsent, firedMult, fcase, tchan, sentTotal>>

\* the startup task has spawned the Zaps listener with its sender, stored the
\* handle and returned
InitStat ==
    /\ toggles = CfgMult
    /\ tracker = NewTracker
    /\ pc = [s \in Sources |-> "stopped"]
    /\ fireCount = [i \in 1..Len(CfgMult) |-> 0]
    /\ InitTasks
    /\ InitNoLife
    /\ handles = [s \in Sources |-> IF s = "Zaps" THEN 1 ELSE 0]
    /\ tstate = [t \in Tasks |-> IF t = 1 THEN "pre" ELSE "none"]
    /\ tsrc = [t \in Tasks |-> "Zaps"]
    /\ tcancel = [t \in Tasks |-> FALSE]
    /\ configured = {"Zaps"}
    /\ cpc = [c \in Callers |-> "idle"]
    /\ cname = [c \in Callers |-> "Zaps"]
    /\ cold = [c \in Callers |-> 0]
    /\ cstart = [c \in Callers |-> FALSE]
    /\ todo = << >>
    /\ ncmd = 0
    /\ InitAux

NextStat ==
    \/ GuiCommand
    \/ StatusRecv
    \/ StatusForward
    \/ \E c \in Callers : StopRemove(c)
    \/ \E c \in Callers : JoinDone(c)
    \/ \E c \in Callers : JoinTimeout(c)
    \/ \E c \in Callers : Spawn(c)
    \/ \E c \in Callers : Insert(c)
    \/ \E t \in Tasks : TaskInit(t)
    \/ \E t \in Tasks : TaskConnects(t)
    \/ \E t \in Tasks : TaskStops(t)

SpecStat == InitStat /\ [][NextStat]_vars

\* the tasks spawned for source s
TasksOf(s) == {t \in Tasks : tstate[t] # "none" /\ tsrc[t] = s}

\* the task spawned last for source s (0 if there is none)
Newest(s) ==
    IF TasksOf(s) = {} THEN 0
    ELSE CHOOSE t \in TasksOf(s) : \A u \in TasksOf(s) : u <= t

\* C15: when start(source) is called again for a configured source, the
\* earlier task's token is cancelled before the next task is spawned, and
\* once the calls have returned exactly one handle is stored for the source,
\* that of the task spawned last, and that task is the only live task of the
\* source (no task is live if it has already ended on an error).
C15_RestartLeavesOneListener ==
    /\ \A t1, t2 \in Tasks :
          (t1 < t2 /\ tstate[t2] # "none" /\ tsrc[t1] = tsrc[t2]) => tcancel[t1]
    /\ \A s \in configured :
          (/\ cpc["control"] = "idle" /\ ncmd >= 1
           /\ cstart["control"] /\ cname["control"] = s)
             => /\ handles[s] = Newest(s)
                /\ handles[s] # 0
                /\ {t \in Tasks : Live(t) /\ tsrc[t] = s}
                      = IF tstate[Newest(s)] = "done" THEN {} ELSE {Newest(s)}

\* C16: stop(source) removes the handle and cancels its token, waits for the
\* task, and returns whether the task finished or the wait timed out, with no
\* handle stored for the source; with no handle stored it changes nothing.
C16_StopAlwaysReturns ==
    /\ [][\A c \in Callers :
             /\ (cpc[c] = "stop" /\ cpc'[c] # "stop") =>
                   /\ handles'[cname[c]] = 0
                   /\ handles[cname[c]] # 0 =>
                         /\ tcancel'[handles[cname[c]]]
                         /\ cpc'[c] = "join"
                   /\ handles[cname[c]] = 0 =>
                         /\ <<handles, tstate, tcancel>>' = <<handles, tstate, tcancel>>
                         /\ cpc'[c] = AfterStop(c)
             /\ (cpc[c] = "join" /\ cpc'[c] # "join") =>
                   /\ handles' = handles
                   /\ handles'[cname[c]] = 0
                   /\ cpc'[c] = AfterStop(c)]_vars
    /\ \A c \in Callers :
          (cpc[c] \in {"stop", "join"}) ~> (cpc[c] \notin {"stop", "join"})

\* a stop has returned after its join timed out: the task is cancelled and
\* still running, and no handle is stored
C16_Witness ==
    /\ cpc["control"] = "idle" /\ ncmd = 1 /\ ~ cstart["control"]
    /\ cname["control"] = "Zaps"
    /\ tcancel[1] /\ tstate[1] = "pre"
    /\ handles["Zaps"] = 0

(***************************************************************************)
(* Properties of the live phase.                                           *)
(***************************************************************************)
Quiet == \A s \in Sources : pc[s] \in {"live", "stopped", "done"}

\* the sats of the finished live boosts of source s
RECURSIVE SumLog(_)
SumLog(l) == IF l = << >> THEN 0 ELSE l[1][1] + SumLog(Tail(l))

\* the total before any live boost was added
LiveBase == tracker.total - SumLog(log["Zaps"]) - SumLog(log["Boostboard"]) - SumLog(log["NWC"])

\* sources a and b have each finished exactly one live boost, no other boost
\* is in flight, and each boost alone would have taken the total from below the
\* multiple m of toggle i's threshold to m
BothCross(a, b, i) ==
    /\ Quiet
    /\ Len(log[a]) = 1 /\ Len(log[b]) = 1
    /\ \A s \in Sources \ {a, b} : log[s] = << >>
    /\ ~ toggles[i].is_default /\ toggles[i].threshold > 0 /\ toggles[i].trigger_multiple
    /\ LET T == toggles[i].threshold
           x == log[a][1][1]
           y == log[b][1][1]
       IN  /\ (LiveBase + x) \div T > LiveBase \div T
           /\ (LiveBase + y) \div T = (LiveBase + x) \div T
           /\ (LiveBase + x + y) \div T = (LiveBase + x) \div T

\* C2: when live boosts of two sources would each cross the same multiple of a
\* cumulative-total threshold, exactly one of the two decision sequences fires
\* the toggle, never both and never neither.
C2_ExactlyOneFires ==
    \A a, b \in Sources : \A i \in 1..Len(toggles) :
        (a # b /\ BothCross(a, b, i))
           => Cardinality({s \in {a, b} : i \in log[s][1][2]}) = 1

\* C3: the previous_total a threshold decision uses is the total as it stood
\* immediately before that boost's own add (add and decision are one atomic
\* unit: no other task's tracker operation falls between them).
C3_DecisionSeesOwnAdd ==
    \A s \in Sources : dec[s].i # 0 => dec[s].prev = preAdd[s]

\* C9: for a trigger_multiple threshold T and boosts processed one after
\* another, a boost fires iff the total after it is >= T and its multiple is
\* greater than the multiple before the boost and than the recorded multiple;
\* on firing the recorded multiple becomes new_total div T; with T = 10 the
\* boosts 6, 5, 5, 5 fire on the second and the fourth only.
C9_MultipleFiresOnCrossing ==
    /\ \A s \in Sources :
          (dec[s].i # 0 /\ toggles[dec[s].i].trigger_multiple) =>
             LET T == toggles[dec[s].i].threshold
                 after == preAdd[s] + cur[s].sats
             IN  /\ dec[s].new = after /\ dec[s].prev = preAdd[s]
                 /\ dec[s].fire <=> (/\ after >= T
                                     /\ after \div T > preAdd[s] \div T
                                     /\ after \div T > dec[s].last)
                 /\ dec[s].fire =>
                       MapGet(tracker.last_triggered_multiple, T, 0) = after \div T
                 /\ ~ dec[s].fire =>
                       MapGet(tracker.last_triggered_multiple, T, 0) = dec[s].last
    /\ (toggles = CfgSeq /\ Len(log["Zaps"]) = 4
           /\ [k \in 1..4 |-> log["Zaps"][k][1]] = <<6, 5, 5, 5>>)
          => [k \in 1..4 |-> 1 \in log["Zaps"][k][2]] = <<FALSE, TRUE, FALSE, TRUE>>

\* a decision on a trigger_multiple threshold has fired on the second of the
\* boosts 6, 5 of the worked example
C9_Witness ==
    /\ toggles = CfgSeq
    /\ Len(log["Zaps"]) = 1 /\ log["Zaps"][1][1] = 6
    /\ dec["Zaps"].i = 1 /\ dec["Zaps"].fire /\ cur["Zaps"].sats = 5

\* the sats added by boosts whose processing has not finished
InFlight(s) ==
    IF pc[s] \in {"pb_total", "tt_first", "tt_dispatch", "tt_default", "pb_report"}
    THEN cur[s].sats ELSE 0

\* the total the backfill had reached when the listeners went live
BaseTotal == LiveBase - InFlight("Zaps") - InFlight("Boostboard") - InFlight("NWC")

OnceOnly(i) ==
    ~ toggles[i].is_default /\ toggles[i].threshold > 0 /\ ~ toggles[i].trigger_multiple

PbPcs == {"pb_add", "pb_total", "tt_first", "tt_dispatch", "tt_default", "pb_report"}

\* the listener of s is in its live phase
InLive(s) ==
    \/ pc[s] \in {"live", "poll_iter"}
    \/ (pc[s] \in PbPcs /\ ret[s] # "backfill")

\* the listener of s is processing a boost of its backfill
InBackfillBoost(s) == pc[s] \in PbPcs /\ ret[s] = "backfill"

\* this step is a step of the task of s
StepOf(s) == <<pc[s], ti[s]>>' # <<pc[s], ti[s]>>

\* C4: SatTracker.add is applied exactly once for every accepted boost,
\* historical or live, and before any dispatch decision for it: a boost a
\* source delivers in its backfill and again in its live subscription is not
\* added twice, and none is skipped.
C4_AddedExactlyOnce ==
    /\ \A s \in Sources : \A e \in DOMAIN addCount[s] : addCount[s][e] <= 1
    /\ \A s \in Sources :
          (pc[s] \in PbPcs \ {"pb_add"} /\ cur[s].ev \in DOMAIN addCount[s])
             => addCount[s][cur[s].ev] >= 1

\* C5: a boost processed during Backfilling is added to total and by_source
\* and causes no dispatch and no change of trigger memory.
C5_BackfillNoDispatch ==
    /\ [](\A d \in dispatched : d[4] # "backfill")
    /\ [][\A s \in Sources : (InBackfillBoost(s) /\ StepOf(s)) =>
             /\ tracker'.last_triggered_multiple = tracker.last_triggered_multiple
             /\ tracker'.triggered_once = tracker.triggered_once
             /\ dispatched' = dispatched
             /\ fireCount' = fireCount
             /\ pc[s] = "pb_add" =>
                  /\ tracker'.total = tracker.total + cur[s].sats
                  /\ MapGet(tracker'.by_source, s, 0)
                       = MapGet(tracker.by_source, s, 0) + cur[s].sats
             /\ pc[s] # "pb_add" => tracker' = tracker]_vars

\* a backfill boost has been added and its processing is about to report
C5_Witness ==
    \E s \in Sources :
       /\ InBackfillBoost(s) /\ pc[s] = "pb_report"
       /\ cur[s].sats > 0 /\ tracker.total >= cur[s].sats
       /\ MapGet(tracker.by_source, s, 0) >= cur[s].sats

\* the toggles whose thresholds sync_threshold_triggers passes on
Synced(i) == ~ toggles[i].is_default /\ toggles[i].use_total /\ toggles[i].threshold > 0

\* C6: sync_trigger_state with total S sets last_triggered_multiple[T] to
\* S div T for a trigger_multiple threshold, which then fires only for a live
\* boost that brings the total to (S div T + 1) * T or more; a once-only
\* threshold with S >= T is marked triggered and never fires; one with S < T
\* is left as it was.
C6_SyncSeedsTriggerState ==
    [][/\ \A s \in Sources : syncCount'[s] = syncCount[s] + 1 =>
             \A i \in 1..Len(toggles) : Synced(i) =>
                LET T == toggles[i].threshold
                    S == tracker.total
                IN  /\ toggles[i].trigger_multiple =>
                          /\ T \in DOMAIN tracker'.last_triggered_multiple
                          /\ tracker'.last_triggered_multiple[T] = S \div T
                    /\ (~ toggles[i].trigger_multiple /\ S >= T) =>
                          MapGet(tracker'.triggered_once, T, FALSE)
                    /\ (~ toggles[i].trigger_multiple /\ S < T) =>
                          MapGet(tracker'.triggered_once, T, FALSE)
                             = MapGet(tracker.triggered_once, T, FALSE)
       /\ \A i \in 1..Len(toggles) : fireCount'[i] > fireCount[i] =>
             /\ \E s \in Sources : pc[s] = "tt_first" /\ InLive(s) /\ StepOf(s)
             /\ (toggles[i].trigger_multiple /\ seed[i] # NoTime) =>
                   tracker.total >= (seed[i] + 1) * toggles[i].threshold
             /\ ~ toggles[i].trigger_multiple => ~ onceSeeded[i]]_vars

\* a sync has seeded multiple 1 of the trigger_multiple threshold and marked
\* the once-only threshold, and a live boost has since fired multiple 2
C6_Witness ==
    /\ seed[1] = 1 /\ onceSeeded[2]
    /\ fireCount[1] = 1 /\ fireCount[2] = 0
    /\ tracker.total >= 2 * toggles[1].threshold

\* C7: for every source, sync_trigger_state is called exactly once per
\* listener run, after the backfill and before the first live boost.
C7_SyncOncePerRun ==
    \A s \in Sources :
       /\ syncCount[s] <= 1
       /\ InLive(s) => syncCount[s] = 1

\* C8: for every source, a live boost whose timestamp precedes the start of
\* the live subscription is added to the tracker and is never dispatched.
C8_OldLiveBoostNotDispatched ==
    /\ \A d \in dispatched : store[d[1]][d[2]].ts >= liveStart[d[1]]
    /\ \A s \in Sources :
          (InLive(s) /\ pc[s] \in PbPcs \ {"pb_add"}) => addCount[s][cur[s].ev] >= 1

(***************************************************************************)
(* Properties of the toggle policy.                                        *)
(***************************************************************************)
\* toggle i is threshold-based: non-default, use_total, threshold > 0
ThresholdBased(i) ==
    ~ toggles[i].is_default /\ toggles[i].use_total /\ toggles[i].threshold > 0

\* the toggles handed to trigger_single_toggle for the live boost k of source s
DispatchedFor(s, k) == {i \in 1..Len(toggles) : <<s, k, i, "live">> \in dispatched}

\* C11: a threshold-based toggle whose endswith_range excludes the last digit
\* of the boost's sats is not dispatched for that boost, and evaluating it
\* leaves last_triggered_multiple and triggered_once as they were.
C11_SkippedToggleKeepsMemory ==
    \A s \in Sources :
       (/\ dec[s].i # 0
        /\ ThresholdBased(dec[s].i)
        /\ ~ InRange(toggles[dec[s].i], LastDigit(cur[s].sats)))
          => LET T == toggles[dec[s].i].threshold
             IN  /\ dec[s].i \notin DispatchedFor(s, cur[s].ev)
                 /\ MapGet(tracker.last_triggered_multiple, T, 0) = dec[s].last
                 /\ MapGet(tracker.triggered_once, T, FALSE) = dec[s].once

\* C17: a cancellation that arrives while a listener is processing a live
\* boost does not cut that processing short: once the boost's add has
\* happened, its threshold decision, the dispatch of every fired toggle and
\* its report to the observer are carried out before the listener ends.
C17_CancelLetsBoostFinish ==
    \A s \in Sources :
       cutAt[s] \notin {"pb_total", "tt_first", "tt_dispatch", "tt_default", "pb_report"}

\* C20: once a listener task has reported Error for its source (connection,
\* backfill or stream failure) it does not go Live and processes no boost:
\* it neither adds to the tracker nor dispatches.
C20_ErrorIsTerminal ==
    \A s \in Sources :
       status[s] = "Error" => (~ InLive(s) /\ pc[s] \notin PbPcs)

\* the positions at which a listener task is suspended in a producer call,
\* an effect-sink call or a send to the observer channel
SuspensionPcs ==
    {"connect", "load", "backfill", "subscribe", "live", "poll_iter",
     "pb_total", "tt_dispatch", "tt_default", "pb_report"}

C21_StreamErrorIsLocal ==
    [][\A s \in Sources :
          (pc[s] = "live" /\ pc'[s] = "done") =>
             /\ status'[s] = "Error"
             /\ tstate'[handles[s]] = "done"
             /\ \A o \in Sources \ {s} :
                   <<pc[o], cur[o], ti[o], status[o]>>' = <<pc[o], cur[o], ti[o], status[o]>>
             /\ \A t \in Tasks \ {handles[s]} : tstate'[t] = tstate[t]
             /\ <<handles, tcancel, cpc, cold, ncmd>>' = <<handles, tcancel, cpc, cold, ncmd>>
             /\ tracker' = tracker]_vars

\* the stream of Zaps has failed while Boostboard was processing a boost, and
\* Boostboard has finished that boost and is live
C21_Witness ==
    /\ status["Zaps"] = "Error" /\ pc["Zaps"] = "done" /\ tstate[1] = "done"
    /\ status["Boostboard"] = "Running" /\ pc["Boostboard"] = "live"
    /\ tstate[2] = "live" /\ handles["Boostboard"] = 2 /\ handles["Zaps"] = 1
    /\ Len(log["Boostboard"]) >= 1 /\ Len(log["Zaps"]) >= 1

\* C22: every listener task that has ended for a reason other than its
\* cancellation has reported the Error status for its source: no task ends
\* silently.
C22_NoSilentEnd ==
    \A s \in Sources :
       (pc[s] = "done" /\ cutAt[s] = "") => status[s] = "Error"

C24_OnlyUseTotalInThresholdPolicy ==
    /\ \A i \in 1..Len(toggles) : fireCount[i] > 0 => ThresholdBased(i)
    /\ \A s \in Sources : dec[s].i # 0 => ThresholdBased(dec[s].i)
    /\ \A i \in 1..Len(toggles) :
          (seed[i] # NoTime \/ onceSeeded[i]) => ThresholdBased(i)

\* the tracker after trigger memory is recorded for every toggle of the set
RECURSIVE UpdateAll(_, _)
UpdateAll(tr, is) ==
    IF is = {} THEN tr
    ELSE LET i == CHOOSE j \in is : TRUE
         IN  UpdateAll(UpdateLastTriggeredThreshold(tr, toggles[i].threshold,
                                                   toggles[i].trigger_multiple),
                       is \ {i})

\* the tracker as the first n finished live boosts of Zaps have left it
RECURSIVE Replay(_)
Replay(n) ==
    IF n = 0 THEN NewTracker
    ELSE UpdateAll(TrackerAdd(Replay(n - 1), "Zaps", log["Zaps"][n][1]),
                   log["Zaps"][n][2])

\* toggle i satisfies its firing condition for the k-th live boost of Zaps:
\* should_trigger_threshold holds for it in the state the boost's add left
Eligible(i, k) ==
    LET before == Replay(k - 1)
        after == TrackerAdd(before, "Zaps", log["Zaps"][k][1])
    IN  ShouldTriggerThreshold(after, before.total, after.total,
                               toggles[i].threshold, toggles[i].trigger_multiple)

\* C25: when one live boost satisfies the firing condition of several
\* threshold-based toggles, each of them fires for that boost, whether their
\* thresholds are equal or different, and trigger memory is recorded for each
\* fired threshold.
C25_EveryEligibleToggleFires ==
    \A k \in 1..Len(log["Zaps"]) : \A i \in 1..Len(toggles) :
       (ThresholdBased(i) /\ Eligible(i, k)) =>
          /\ i \in log["Zaps"][k][2]
          /\ MapGet(Replay(k).last_triggered_multiple, toggles[i].threshold, 0)
                = I64Div(Replay(k).total, toggles[i].threshold)

\* C26: a trigger_multiple threshold never fires at a multiple it has already
\* fired at or been seeded with: every firing is at a multiple strictly greater
\* than every multiple fired or seeded before for that threshold, whatever the
\* interleaving of boosts and of sync_trigger_state calls.
C26_NoMultipleFiredTwice ==
    [][\A i \in 1..Len(toggles) :
          (fireCount'[i] > fireCount[i] /\ toggles[i].trigger_multiple)
          => \A fm \in firedMult :
                fm[1] = toggles[i].threshold
                => I64Div(tracker'.total, toggles[i].threshold) > fm[2]]_vars

\* C27: a boostagram of a source that carries an action field is added only
\* if its action is "boost", in the backfill and live: a boostagram with any
\* other action is never passed to process_boost.
C27_OnlyBoostActionAdded ==
    \A s \in {"Boostboard", "NWC"} :
       \A e \in DOMAIN store[s] :
          store[s][e].action # "boost" => addCount[s][e] = 0

\* C28: the boosts of one source are processed in the order the source
\* delivered them, each completely before the next is added: once a boost of
\* the delivered page has been added, every boost delivered before it that
\* the callback accepts has been added too.
C28_ProcessedInDeliveryOrder ==
    \A s \in Sources :
       \A e \in DOMAIN store[s] :
          \A j \in 1..(e - 1) :
             (addCount[s][e] >= 1 /\ BackfillAccepts(s, j)
                /\ MatchesTimestamp(Filters, store[s][j].ts))
             => addCount[s][j] >= 1

\* the set of entries of a list
Range(l) == {l[i] : i \in 1..Len(l)}

\* the boost's podcast name contains a listed name, ignoring case
PodcastSatisfied(f, boost) ==
    /\ f.podcasts.some
    /\ \E p \in Range(f.podcasts.list) :
          \E pre, post \in Names :
             ToLowercase(boost.podcast) = pre \o ToLowercase(p) \o post

\* C29: if none of podcasts, episode_guids and event_guids is configured every
\* boost matches; otherwise a boost matches iff it satisfies at least one
\* configured kind: its podcast name contains a listed name ignoring case, or
\* its episode GUID equals a listed one, or its event GUID equals a listed
\* one; an empty GUID of the boost satisfies no GUID kind.
C29_ContentMatching ==
    fcase.path = "matches_boost" =>
       LET f == fcase.f
           b == fcase.boost
           anyKind ==    f.podcasts.some \/ f.episode_guids.some \/ f.event_guids.some
           episode == /\ f.episode_guids.some
                      /\ b.episode_guid # ""
                      /\ b.episode_guid \in Range(f.episode_guids.list)
           event == /\ f.event_guids.some
                    /\ b.event_guid # ""
                    /\ b.event_guid \in Range(f.event_guids.list)
       IN  /\ ~ anyKind => fcase.res = "accept"
           /\ anyKind =>
                 (fcase.res = "accept" <=> (PodcastSatisfied(f, b) \/ episode \/ event))

\* a boost with empty GUIDs has been accepted on a podcast name that differs
\* in case from the listed one, by filters that also list the empty GUID
C29_Witness ==
    /\ fcase.path = "matches_boost"
    /\ fcase.res = "accept"
    /\ fcase.boost.podcast = <<"b", "A">>
    /\ fcase.boost.episode_guid = ""
    /\ fcase.boost.event_guid = ""
    /\ fcase.f.podcasts = Some(<< <<"a">> >>)
    /\ fcase.f.episode_guids = Some(<<"", "G1">>)
    /\ ~ fcase.f.event_guids.some

\* C30: a boost is accepted iff its timestamp lies strictly between after and
\* before (a missing bound does not constrain) and it content-matches, at
\* every place that applies filters, in the backfill and live; a timestamp
\* equal to after or to before is rejected.
C30_AcceptedIffStrictlyInside ==
    fcase.path \in FilterPaths =>
       LET f == fcase.f
           inside == /\ (f.after # NoTime => f.after < fcase.ts)
                     /\ (f.before # NoTime => fcase.ts < f.before)
       IN  /\ fcase.res = "accept" <=> (inside /\ MatchesBoost(f, fcase.boost))
           /\ (f.after # NoTime /\ fcase.ts = f.after) => fcase.res = "reject"
           /\ (f.before # NoTime /\ fcase.ts = f.before) => fcase.res = "reject"

\* a content-matching boost stamped exactly at the after bound has been
\* rejected by the live handler
C30_Witness ==
    /\ fcase.path = "handle_boosts"
    /\ fcase.f.after # NoTime
    /\ fcase.ts = fcase.f.after
    /\ MatchesBoost(fcase.f, fcase.boost)
    /\ fcase.res = "reject"

\* C31: when a trigger_multiple threshold T is decided to fire, the multiple
\* recorded in last_triggered_multiple[T] is new_total div T for the very total
\* the decision used: decision and record are one hold of the tracker lock, so
\* the total does not change between them.
C31_RecordUsesDecisionTotal ==
    [][\A s \in Sources :
          (pc[s] = "tt_first" /\ cur'[s].fired # cur[s].fired
             /\ toggles[ti[s]].trigger_multiple)
          => LET T == toggles[ti[s]].threshold
             IN  /\ dec'[s].new = tracker.total
                 /\ tracker'.total = tracker.total
                 /\ T \in DOMAIN tracker'.last_triggered_multiple
                 /\ tracker'.last_triggered_multiple[T] = I64Div(dec'[s].new, T)]_vars

\* a threshold has fired for a boost between whose add and decision another
\* source added, and the record is the multiple of the total the decision read
C31_Witness ==
    \E s \in Sources :
       /\ pc[s] = "tt_dispatch"
       /\ dec[s].i # 0 /\ dec[s].fire
       /\ toggles[dec[s].i].trigger_multiple
       /\ dec[s].new # preAdd[s] + cur[s].sats
       /\ MapGet(tracker.last_triggered_multiple, toggles[dec[s].i].threshold, 0)
             = I64Div(dec[s].new, toggles[dec[s].i].threshold)

\* the historical events the backfill of s has passed to its callback
Delivered(s) == {e \in DOMAIN store[s] : addCount[s][e] >= 1}

\* C32: the live subscription of NWC starts immediately after the last
\* historical event its backfill delivered (its timestamp + 1), or at the
\* load-since timestamp itself when the backfill delivered no event.
C32_SubscriptionStart ==
    pc["NWC"] = "subscribe" =>
       IF Delivered("NWC") = {}
       THEN lastAt = since["NWC"]
       ELSE \E e \in Delivered("NWC") :
               /\ \A o \in Delivered("NWC") : store["NWC"][o].ts <= store["NWC"][e].ts
               /\ lastAt = store["NWC"][e].ts + 1

\* C33: for every threshold T > 0 the trigger memory never runs ahead of
\* the total: last_triggered_multiple[T] <= total div T, and triggered_once[T]
\* implies total >= T.
C33_MemoryNotAheadOfTotal ==
    /\ \A T \in DOMAIN tracker.last_triggered_multiple :
          T > 0 => tracker.last_triggered_multiple[T] <= I64Div(tracker.total, T)
    /\ \A T \in DOMAIN tracker.triggered_once :
          (T > 0 /\ tracker.triggered_once[T]) => tracker.total >= T

\* the sum of the sats of the events S of source s
RECURSIVE SatsSum(_, _)
SatsSum(s, S) ==
    IF S = {} THEN 0
    ELSE LET e == CHOOSE x \in S : TRUE
         IN  store[s][e].sats + SatsSum(s, S \ {e})

\* C34: the total equals the sum of the sats of the distinct boosts accepted
\* so far, also across a stop and start of a source: the backfill of the new
\* task does not add again the historical boosts the previous task added.
C34_TotalIsSumOfDistinctBoosts ==
    tracker.total = SatsSum("Zaps", Delivered("Zaps"))
                    + SatsSum("Boostboard", Delivered("Boostboard"))
                    + SatsSum("NWC", Delivered("NWC"))

\* C35: NWC polling delivers each wallet transaction to the boost handler at
\* most once: once a transaction has been delivered and the poll loop has
\* moved on, the cursor of the next list request is strictly greater than
\* the transaction's created_at, also when created_at equalled the cursor.
C35_PollDeliversOnce ==
    /\ \A e \in DOMAIN addCount["NWC"] : addCount["NWC"][e] <= 1
    /\ (nwcMode = "poll" /\ pc["NWC"] \in {"live", "poll_iter"}) =>
          \A e \in Delivered("NWC") \ Range(queue["NWC"]) :
             lastAt > store["NWC"][e].ts

\* C36: once the start and stop calls of the startup task and the control loop
\* have settled (no caller is inside start_listener or stop_listener), every
\* listener task that is running and whose token has not been cancelled is the
\* one stored in the handle map under its source id, so a later stop(source)
\* reaches it.
C36_RunningTaskIsStored ==
    (\A c \in Callers : cpc[c] = "idle")
        => \A t \in Tasks : (Live(t) /\ ~tcancel[t]) => handles[tsrc[t]] = t

\* C38: the UpdateSatTotal values are sent in non-decreasing order, also when
\* boosts of different sources are processed concurrently: every send carries
\* a total at least as large as the one sent before it.
C38_TotalsSentInOrder ==
    [][\A s \in Sources :
          (pc[s] = "pb_total" /\ pc'[s] # "pb_total" /\ sentTotal # << >>)
             => sentTotal'[1] >= sentTotal[1]]_vars

\* C37: the Disabled status of a replaced listener task is never delivered to
\* the observer after the Running status of the task that replaced it, so
\* after the replacing start has settled the last status received is Running.
C37_DisabledNotAfterRunning ==
    \A i, j \in 1..Len(glog) :
        (i < j /\ glog[i].name = glog[j].name /\ glog[i].status = "Running"
               /\ glog[j].status = "Disabled")
            => ~(glog[j].task < glog[i].task)

\* C12: if a threshold-based toggle fires for a boost, no default toggle is
\* dispatched for that boost; any_triggered is set only by a toggle of the
\* boost in hand, so the next boost is evaluated afresh.
C12_ThresholdSuppressesDefault ==
    /\ \A s \in Sources : \A k \in 1..nLive[s] :
          (\E i \in DispatchedFor(s, k) : ThresholdBased(i))
             => \A j \in DispatchedFor(s, k) : ~ toggles[j].is_default
    /\ \A s \in Sources :
          (pc[s] \in {"tt_first", "tt_dispatch", "tt_default", "pb_report"} /\ anyTrig[s])
             => \E i \in 1..Len(toggles) :
                   /\ ~ toggles[i].is_default
                   /\ \/ i \in DispatchedFor(s, cur[s].ev)
                      \/ (pc[s] = "tt_dispatch" /\ ti[s] = i)

\* a boost fired the threshold and no default toggle, and the next boost was
\* answered by the default toggle
C12_Witness ==
    /\ toggles = CfgTog
    /\ DispatchedFor("Zaps", 2) = {1, 2}
    /\ 3 \in DispatchedFor("Zaps", 3)
    /\ Len(log["Zaps"]) = 3

\* C13: if no threshold-based toggle fires for a live boost, every default
\* toggle whose endswith_range is absent or contains the boost's last digit is
\* dispatched.
C13_DefaultsFireWhenNoThreshold ==
    \A s \in Sources : \A k \in 1..Len(log[s]) :
       (\A i \in DispatchedFor(s, k) : ~ ThresholdBased(i))
          => \A j \in 1..Len(toggles) :
                (toggles[j].is_default /\ InRange(toggles[j], LastDigit(log[s][k][1])))
                   => j \in DispatchedFor(s, k)

\* the first-pass toggles that trigger_toggles must hand to
\* trigger_single_toggle for a finished live boost: those whose threshold
\* check fired, and those without a threshold that carry a digit range, if the
\* range admits the digit
MustDispatch(s, k) ==
    {i \in 1..Len(toggles) :
        /\ ~ toggles[i].is_default
        /\ InRange(toggles[i], LastDigit(log[s][k][1]))
        /\ \/ (toggles[i].threshold > 0 /\ i \in log[s][k][2])
           \/ (toggles[i].threshold <= 0 /\ toggles[i].endswith_range # NoRange)}

\* C19: a failing dispatch of one fired toggle does not stop the remaining
\* toggles of the boost from being evaluated and dispatched, and the boost's
\* processing completes with its observer report.
C19_DispatchFailureIsLocal ==
    /\ \A s \in Sources : \A k \in 1..Len(log[s]) :
          /\ MustDispatch(s, k) \subseteq DispatchedFor(s, k)
          /\ MustDispatch(s, k) = {} =>
                \A j \in 1..Len(toggles) :
                   (toggles[j].is_default /\ InRange(toggles[j], LastDigit(log[s][k][1])))
                      => j \in DispatchedFor(s, k)
    /\ \A f \in failed :
          \/ f[2] <= Len(log[f[1]])
          \/ (pc[f[1]] \in {"tt_first", "tt_dispatch", "tt_default", "pb_report"}
                /\ cur[f[1]].ev = f[2])

\* the dispatch of the threshold toggle failed, the next toggle was dispatched
\* all the same and the boost was reported
C19_Witness ==
    /\ <<"Zaps", 2, 1>> \in failed
    /\ <<"Zaps", 2, 2, "live">> \in dispatched
    /\ Len(log["Zaps"]) >= 2

====
